---- MODULE Spec2Model ----
(***************************************************************************)
(* Verification model of whoyao/livekit:                                   *)
(*   - the signal-relay message sink and its peer reader                   *)
(*     (pkg/routing/signal.go),                                            *)
(*   - the RED encoder (pkg/sfu/redreceiver.go) and the RED primary        *)
(*     receiver that decodes its output.                                   *)
(* Each subsystem has its own specification over the shared variables; the *)
(* variables of the other subsystem stay at their initial value.           *)
(***************************************************************************)
EXTENDS Integers, Sequences, FiniteSets, TLC

(***************************************************************************)
(* Signal relay: configuration (durations in milliseconds) and bounds.     *)
(***************************************************************************)
RetryTimeout == 7500
MinRetryInterval == 500
MaxRetryInterval == 4000

\* messages offered to WriteMessage over a run
MaxMsgs == 2
\* frames the stream holds between Send and the peer's reader
MaxChan == 1

VARIABLES
    CloseOnFailure, BlockOnClose,       \* SignalSinkParams
    seq, queue, writing, draining,      \* signalMessageSink fields
    streamErr,                          \* Stream.Err(): "nil" while the stream is open
    chan,                               \* frames sent and not yet read by the peer
    wpc, interval, elapsed, close, n, msg, err,   \* the write() goroutine
    writers,                            \* write() goroutines alive
    accepted, wmRes,                    \* WriteMessage: messages accepted, last result
    cpc,                                \* the caller of Close()
    rseq, rpc, emitted,                 \* signalMessageReader and its copy loop
    trimmed,                            \* history: the reader has trimmed an overlap
    lastExit                            \* history: how the last write() ended

sigVars == <<CloseOnFailure, BlockOnClose, seq, queue, writing, draining, streamErr,
             chan, wpc, interval, elapsed, close, n, msg, err, writers, accepted,
             wmRes, cpc, rseq, rpc, emitted, trimmed, lastExit>>

(***************************************************************************)
(* RED: program constants, inputs and bounds.                              *)
(***************************************************************************)
maxRedCount == 2
mtuSize == 1500

\* the first sequence number and the timestamp step of the packets fed in
SnBase == 65534
TsStep == 480
\* a timestamp as <<high 16 bits, low 16 bits>> of the uint32: 2^31 - 2 * TsStep
TsBase == <<32767, 64576>>
\* a silence between two packets: 40 steps
TsGap == 40 * TsStep
\* payload lengths fed in
Lens == {12, 1030}

\* packets of the source stream the RED encoder may be given
MaxSrc == 4
\* calls of RedReceiver.ForwardRTP over a run
MaxFwd == 4

VARIABLES
    redDownTracks,      \* RedReceiver.downTrackSpreader: the subscribers stored
    pktBuff,            \* RedReceiver.pktBuff
    redOut,             \* the last ForwardRTP: its packet, the history it met, the
                        \* redundancy collected, the RED payload broadcast
    forwarded,          \* history: the source packets broadcast as RED, in order
    redCalls,           \* ForwardRTP calls so far
    srcLen,             \* the source stream: payload length of each packet seen
    tsGapAt             \* the source stream: the packet before which the silence falls

redVars == <<redDownTracks, pktBuff, redOut, forwarded, redCalls, srcLen, tsGapAt>>

\* the variables the signal relay leaves alone, and those the RED encoder does
\* RED round trip: the first sequence number fed in, the timestamp steps tried
RtSnBase == 65530
RtTsSteps == {TsStep, 9000}

\* packets of a round trip
MaxRT == 5

\* the out-of-order feed: packets generated, RED packets handed to the receiver
MaxIdx == 11
MaxSend == 4

\* how far behind the newest packet a RED packet is still looked at for recovery
DeliveredWindow == 8

VARIABLES
    rtR,                \* redCount: the redundancy blocks asked of the encoder
    rtTsStep,           \* the timestamp step of the primary packets
    rtSent,             \* the payload lengths of the primary packets encoded so far
    rtDrop,             \* for each of them, whether its RED packet was lost
    rtWire,             \* the RED packet on its way to the RED primary receiver
    rtRecv,             \* what the RED primary receiver sent downstream, in order
    rtDelivered,        \* the sequence numbers it has sent downstream
    rtLastSeq,          \* the newest primary sequence number it has received
    rtLastIn,           \* the index of the last RED packet it was given
    rtFed               \* the number of RED packets it was given

rtVars == <<rtR, rtTsStep, rtSent, rtDrop, rtWire, rtRecv, rtDelivered,
            rtLastSeq, rtLastIn, rtFed>>

(***************************************************************************)
(* WebRTCReceiver: inputs and bounds                                       *)
(***************************************************************************)
\* the spatial layers with an uplink are 0..MaxLayer
MaxLayer == 1
\* packets each layer's buffer may hand out
MaxPkt == 2
\* AddDownTrack calls on the receiver over a run
MaxAdd == 2

Layers == 0..MaxLayer
\* the subscribers, each with its DownTrack; the callers of the RED getters
Subs == {"s1", "s2"}
Getters == {"g1", "g2"}

VARIABLES
    isRED,              \* WebRTCReceiver.isRED
    rcvClosed,          \* WebRTCReceiver.closed
    closeOnce,          \* WebRTCReceiver.closeOnce: "idle", "running", "done"
    downTracks,         \* WebRTCReceiver.downTrackSpreader: the subscribers stored
    wrapper,            \* primaryReceiver / redReceiver: the instance stored, 0 for nil
    redPktWriter,       \* WebRTCReceiver.redPktWriter: the instance it forwards to, 0 for nil
    wrClosed,           \* the wrapper instances: closed
    wrDownTracks,       \* the wrapper instances: the subscribers stored
    instances,          \* wrapper instances created so far
    loopPc,             \* forwardRTP of each layer: where it is
    nextPkt,            \* each layer's buffer: the next packet to hand out
    pending,            \* Broadcast of each layer: the WriteRTP calls not yet made
    dtLast,             \* each DownTrack: the last packet of each layer written to it
    closeList,          \* closeTracks: the DownTracks ResetAndGetDownTracks returned
    closeRuns,          \* history: times the close sequence ran to its end
    stmClosed,          \* history: StreamTrackerManager.Close calls
    onClosed,           \* history: onCloseHandler calls
    dtClosed,           \* history: Close calls on each DownTrack
    dtNotified,         \* history: notifications AddDownTrack gave each DownTrack
    addPc,              \* AddDownTrack of each subscriber: where it is
    addRes,             \* AddDownTrack of each subscriber: the last result
    addCalls,           \* AddDownTrack calls so far
    wrAddRes,           \* RedReceiver.AddDownTrack: the last result
    getPc,              \* GetRedReceiver / GetPrimaryReceiverForRed of each caller
    getNew,             \* the wrapper instance the caller created
    getRes              \* what the caller was returned: "none", "self" or an instance

rcvVars == <<isRED, rcvClosed, closeOnce, downTracks, wrapper, redPktWriter,
             wrClosed, wrDownTracks, instances, loopPc, nextPkt, pending, dtLast,
             closeList, closeRuns, stmClosed, onClosed, dtClosed, dtNotified,
             addPc, addRes, addCalls, wrAddRes, getPc, getNew, getRes>>

\* AddUpTrack: inputs and bounds
MaxUp == 3
UpTrackIds == {1, 2}
UpBufferIds == {1, 2}

VARIABLES
    upClosed,      \* WebRTCReceiver.closed, as AddUpTrack reads it
    upTracks,      \* upTracks[layer]: the track stored, 0 for nil
    buffers,       \* buffers[layer]: the buffer stored, 0 for nil
    upTrackers,    \* trackers added for the layer by AddTracker, in order
    fwdLoops,      \* forwardRTP goroutines started for the layer: the buffer each reads
    upCalls        \* AddUpTrack calls made

upVars == <<upClosed, upTracks, buffers, upTrackers, fwdLoops, upCalls>>

\* DownTrackSpreader: inputs and bounds
DtsSubs == {"s1", "s2", "s3"}
\* the DownTracks offered to Store: subscriber s1 subscribes twice
DownTrackSet ==
    {[sub |-> "s1", id |-> 1], [sub |-> "s1", id |-> 2],
     [sub |-> "s2", id |-> 1], [sub |-> "s3", id |-> 1]}
SliceIds == {1, 2}
Workers == {1, 2}
Thresholds == {0, 2}
bcStep == 2
DefaultThreshold == 1000000

VARIABLES
    dtsMap,        \* downTracks: the DownTracks in the map, keyed by their subscriber
    slices,        \* the backing arrays allocated for the shadow
    dtsShadow,     \* downTracksShadow: the slice it refers to, 0 for nil
    dtsReturned,   \* what the last ResetAndGetDownTracks returned
    bcThreshold,   \* params.Threshold
    bcPc,          \* where Broadcast is
    bcSnap,        \* the slice GetDownTracks returned to Broadcast, with its length
    bcAtStart,     \* the content of that slice when Broadcast took it
    bcNext,        \* sequential execution: the next index
    bcStart,       \* parallel execution: the shared counter
    bcWorker,      \* parallel execution: each worker's position
    bcWritten      \* writer invocations of this Broadcast, per DownTrack

dtsVars == <<dtsMap, slices, dtsShadow, dtsReturned, bcThreshold, bcPc, bcSnap,
             bcAtStart, bcNext, bcStart, bcWorker, bcWritten>>

\* VP9 layer selector: layers, packets and bounds
InvalidLayerSpatial == -1
InvalidLayerTemporal == -1
DefaultMaxLayerSpatial == 2
MaxTemporal == 2
MaxSelect == 1
InvalidLayer == [spatial |-> InvalidLayerSpatial, temporal |-> InvalidLayerTemporal]
ValidLayers == [spatial : 0..DefaultMaxLayerSpatial, temporal : 0..MaxTemporal]
LayerSet == ValidLayers \cup {InvalidLayer}
\* a packet whose payload is not a VP9 packet
OtherPkt ==
    [vp9 |-> FALSE, layer |-> InvalidLayer, P |-> FALSE, E |-> FALSE, B |-> FALSE,
     U |-> FALSE, keyFrame |-> FALSE, marker |-> FALSE]
\* the VP9 packets fed to Select
Vp9Pkts ==
    [vp9 : {TRUE}, layer : ValidLayers, P : BOOLEAN, E : BOOLEAN, B : BOOLEAN,
     U : BOOLEAN, keyFrame : BOOLEAN, marker : BOOLEAN]
NoResult ==
    [RTPMarker |-> FALSE, IsSelected |-> FALSE, IsRelevant |-> FALSE,
     IsResuming |-> FALSE, IsSwitchingToRequestSpatial |-> FALSE,
     IsSwitchingToMaxSpatial |-> FALSE]

VARIABLES
    currentLayer,    \* Base.currentLayer
    prevLayer,       \* v.currentLayer as the last Select found it
    targetLayer,     \* Base.targetLayer
    requestSpatial,  \* Base.requestSpatial
    maxLayer,        \* Base.maxLayer
    extPkt,          \* the packet of the last Select
    result,          \* what the last Select returned
    selCalls         \* Select calls made

vp9Vars == <<currentLayer, prevLayer, targetLayer, requestSpatial, maxLayer, extPkt, result, selCalls>>

\* StreamTrackerManager: layers, inputs and bounds
StmLayers == 0..DefaultMaxLayerSpatial
MaxBrTemporal == 1
BrTemporals == 0..MaxBrTemporal
BrValues == {0, 1}
NoBitrates == [l \in StmLayers |-> [tl \in BrTemporals |-> 0]]
\* the highest spatial layer the track info announces
TrackInfoMaxLayer == DefaultMaxLayerSpatial
NoLayered == [al |-> <<>>, br |-> NoBitrates]
NoDistance == [num |-> 0, den |-> 1]

VARIABLES
    isSVC,                 \* StreamTrackerManager.isSVC
    trackers,              \* trackers[layer]: a tracker is stored
    availableLayers,       \* availableLayers
    lastStatus,            \* the status each layer's tracker reported last
    maxExpectedLayer,      \* maxExpectedLayer
    paused,                \* paused
    maxTemporalLayerSeen,  \* maxTemporalLayerSeen
    maxPublishedLayer,     \* maxPublishedLayer
    trackerBr,             \* what BitrateTemporalCumulative of each tracker returns
    maxAvailNotified,      \* the last layer given to OnMaxAvailableLayerChanged
    layeredOut,            \* what the last GetLayeredBitrate returned
    distanceOut,           \* what the last DistanceToDesired returned, as a fraction
    stmCalled,             \* the query made of the manager, "none" before it
    pubNotes,              \* the layers given to OnMaxPublishedLayerChanged, in order
    tempNotes              \* the layers given to OnMaxTemporalLayerSeenChanged, in order

stmVars == <<isSVC, trackers, availableLayers, lastStatus, maxExpectedLayer, paused,
             maxTemporalLayerSeen, maxPublishedLayer, trackerBr, maxAvailNotified,
             layeredOut, distanceOut, stmCalled, pubNotes, tempNotes>>

\* sender reports: times, timestamps and layers fed in
\* NTP times are counted in tenths of a second
NtpUnitsPerSecond == 10
\* the NTP timestamp 0, and the times 1000 s and 1000.1 s
NtpTimes == {0, 10000, 10001}
\* RTP timestamps as <<high 16 bits, low 16 bits>>: 100000, 110000, 2^32 - 536
RtpTimes == {<<1, 34464>>, <<1, 44464>>, <<65535, 65000>>}
\* the timestamps asked about: 105000 and 100
AskedTs == {<<1, 39464>>, <<0, 100>>}
clockRate == 90000
\* layers named in calls: below, inside and above the senderReports array
SrLayers == -1..(DefaultMaxLayerSpatial + 1)
NoReport == [ntp |-> -1, rtp |-> <<0, 0>>]
NoAnswer == [err |-> "none", ts |-> <<0, 0>>, asked |-> <<0, 0>>, layer |-> -1, ref |-> -1]

VARIABLES
    senderReports,   \* senderReports[layer]: NoReport is nil
    srDelivered,     \* the layers a sender report was ever stored for
    refOut           \* the last GetReferenceLayerRTPTimestamp call: arguments and result

srVars == <<senderReports, srDelivered, refOut>>


\* a DownTrack that was never told a maximum published layer
NotTold == -2

VARIABLES
    mpPc,            \* AddDownTrack of each subscriber: "idle", "store", "done"
    mpTracks,        \* the subscribers whose DownTrack the spreader holds
    mpRun,           \* the entries of pubNotes whose listener goroutine has run
    dtLayer          \* the last layer given to each DownTrack's UpTrackMaxPublishedLayerChange

mpVars == <<mpPc, mpTracks, mpRun, dtLayer>>


nonSigVars == <<redVars, rtVars, rcvVars, upVars, dtsVars, vp9Vars, stmVars, srVars, mpVars>>
nonRedVars == <<sigVars, rtVars, rcvVars, upVars, dtsVars, vp9Vars, stmVars, srVars, mpVars>>
nonRtVars == <<sigVars, redVars, rcvVars, upVars, dtsVars, vp9Vars, stmVars, srVars, mpVars>>
nonRcvVars == <<sigVars, redVars, rtVars, upVars, dtsVars, vp9Vars, stmVars, srVars, mpVars>>
nonUpVars == <<sigVars, redVars, rtVars, rcvVars, dtsVars, vp9Vars, stmVars, srVars, mpVars>>
nonDtsVars == <<sigVars, redVars, rtVars, rcvVars, upVars, vp9Vars, stmVars, srVars, mpVars>>
nonVp9Vars == <<sigVars, redVars, rtVars, rcvVars, upVars, dtsVars, stmVars, srVars, mpVars>>
nonStmVars == <<sigVars, redVars, rtVars, rcvVars, upVars, dtsVars, vp9Vars, srVars, mpVars>>
nonSrVars == <<sigVars, redVars, rtVars, rcvVars, upVars, dtsVars, vp9Vars, stmVars, mpVars>>
nonMpVars == <<sigVars, redVars, rtVars, rcvVars, upVars, dtsVars, vp9Vars, stmVars, srVars>>

vars == <<sigVars, redVars, rtVars, rcvVars, upVars, dtsVars, vp9Vars, stmVars, srVars, mpVars>>

Min2(a, b) == IF a < b THEN a ELSE b

NoFrame == [seq |-> 0, close |-> FALSE, msgs |-> <<>>]

----------------------------------------------------------------------------
(***************************************************************************)
(* The stream (psrpc.Stream) as the sink uses it.                          *)
(***************************************************************************)

\* Stream.Close(cause): the first close decides the stream's error; a nil
\* cause is reported as ErrStreamClosed.
StreamClose(cur, cause) == IF cur = "nil" THEN cause ELSE cur

IsClosed == streamErr # "nil"

\* signalRequestMessageWriter.Write
Write(s, c, msgs) == [seq |-> s, close |-> c, msgs |-> msgs]

----------------------------------------------------------------------------
(***************************************************************************)
(* signalMessageSink                                                       *)
(***************************************************************************)

SigInit ==
    /\ CloseOnFailure \in BOOLEAN
    /\ BlockOnClose \in BOOLEAN
    /\ seq = 0 /\ queue = <<>> /\ writing = FALSE /\ draining = FALSE
    /\ streamErr = "nil"
    /\ chan = <<>>
    /\ wpc = "idle" /\ interval = MinRetryInterval /\ elapsed = 0
    /\ close = FALSE /\ n = 0 /\ msg = NoFrame /\ err = FALSE
    /\ writers = 0
    /\ accepted = 0 /\ wmRes = "none"
    /\ cpc = "none"
    /\ rseq = 0 /\ rpc = "reading" /\ emitted = <<>>
    /\ trimmed = FALSE
    /\ lastExit = [how |-> "none", draining |-> FALSE]

\* the message put at the head of the queue
Enqueue_front(q, m) == <<m>> \o q

\* s.queue = append(s.queue, msg)
Enqueue(q, m) == Append(q, m)

\* `go s.write()` under the sink's mutex
Spawn ==
    /\ writing' = TRUE
    /\ writers' = writers + 1
    /\ wpc' = "start"

\* WriteMessage without the check of draining
WriteMessage_noDraining ==
    /\ accepted < MaxMsgs
    /\ IF streamErr # "nil"
       THEN /\ wmRes' = streamErr
            /\ UNCHANGED <<queue, accepted, writing, writers, wpc>>
       ELSE /\ wmRes' = "ok"
            /\ queue' = Enqueue(queue, accepted + 1)
            /\ accepted' = accepted + 1
            /\ IF ~writing THEN Spawn ELSE UNCHANGED <<writing, writers, wpc>>
    /\ UNCHANGED <<nonSigVars, CloseOnFailure, BlockOnClose, seq, draining, streamErr, chan,
                   interval, elapsed, close, n, msg, err, cpc, rseq, rpc, emitted,
                   trimmed, lastExit>>

\* WriteMessage(msg): the message offered is the next one, numbered accepted + 1
WriteMessage ==
    /\ accepted < MaxMsgs
    /\ IF streamErr # "nil"
       THEN /\ wmRes' = streamErr
            /\ UNCHANGED <<queue, accepted, writing, writers, wpc>>
       ELSE IF draining
       THEN /\ wmRes' = "ErrStreamClosed"
            /\ UNCHANGED <<queue, accepted, writing, writers, wpc>>
       ELSE /\ wmRes' = "ok"
            /\ queue' = Enqueue(queue, accepted + 1)
            /\ accepted' = accepted + 1
            /\ IF ~writing THEN Spawn ELSE UNCHANGED <<writing, writers, wpc>>
    /\ UNCHANGED <<nonSigVars, CloseOnFailure, BlockOnClose, seq, draining, streamErr, chan,
                   interval, elapsed, close, n, msg, err, cpc, rseq, rpc, emitted,
                   trimmed, lastExit>>

\* Close(): up to the point where it may block
Close ==
    /\ cpc = "none"
    /\ draining' = TRUE
    /\ IF ~writing THEN Spawn ELSE UNCHANGED <<writing, writers, wpc>>
    /\ cpc' = IF BlockOnClose THEN "blocked" ELSE "returned"
    /\ UNCHANGED <<nonSigVars, CloseOnFailure, BlockOnClose, seq, queue, streamErr, chan,
                   interval, elapsed, close, n, msg, err, accepted, wmRes, rseq, rpc,
                   emitted, trimmed, lastExit>>

\* Close() with BlockOnClose: <-s.Stream.Context().Done()
CloseReturn ==
    /\ cpc = "blocked"
    /\ streamErr # "nil"
    /\ cpc' = "returned"
    /\ UNCHANGED <<nonSigVars, CloseOnFailure, BlockOnClose, seq, queue, writing, draining,
                   streamErr, chan, wpc, interval, elapsed, close, n, msg, err,
                   writers, accepted, wmRes, rseq, rpc, emitted, trimmed,
                   lastExit>>

----------------------------------------------------------------------------
(***************************************************************************)
(* signalMessageSink.write.  The goroutine holds the mutex from each Lock  *)
(* to the next Unlock, so each such stretch is one step.                   *)
(***************************************************************************)

\* the end of write() without the close on failure
WriteExit_noFailClose(e, how) ==
    /\ writing' = FALSE
    /\ writers' = writers - 1
    /\ streamErr' = IF draining THEN StreamClose(streamErr, "ErrStreamClosed") ELSE streamErr
    /\ wpc' = "idle"
    /\ lastExit' = [how |-> how, draining |-> draining]
    /\ interval' = MinRetryInterval /\ elapsed' = 0 /\ err' = FALSE
    /\ close' = FALSE /\ n' = 0 /\ msg' = NoFrame

\* the end of write() without the close of a draining sink
WriteExit_noDrainClose(e, how) ==
    /\ writing' = FALSE
    /\ writers' = writers - 1
    /\ streamErr' = IF e /\ CloseOnFailure THEN StreamClose(streamErr, "ErrSignalWriteFailed")
                    ELSE streamErr
    /\ wpc' = "idle"
    /\ lastExit' = [how |-> how, draining |-> draining]
    /\ interval' = MinRetryInterval /\ elapsed' = 0 /\ err' = FALSE
    /\ close' = FALSE /\ n' = 0 /\ msg' = NoFrame

\* the end of write(), after the loop: e is the goroutine's err # nil.  The
\* goroutine's locals end with it.
WriteExit(e, how) ==
    /\ writing' = FALSE
    /\ writers' = writers - 1
    /\ streamErr' = LET s1 == IF draining THEN StreamClose(streamErr, "ErrStreamClosed")
                              ELSE streamErr
                    IN  IF e /\ CloseOnFailure THEN StreamClose(s1, "ErrSignalWriteFailed")
                        ELSE s1
    /\ wpc' = "idle"
    /\ lastExit' = [how |-> how, draining |-> draining]
    /\ interval' = MinRetryInterval /\ elapsed' = 0 /\ err' = FALSE
    /\ close' = FALSE /\ n' = 0 /\ msg' = NoFrame

\* the head of the loop leaving on an empty queue even when draining
LoopTop_breakOnEmpty(s, q, e, iv, el) ==
    IF Len(q) = 0 \/ IsClosed
    THEN WriteExit(e, IF IsClosed THEN "streamClosed" ELSE "drained")
    ELSE /\ close' = draining
         /\ msg' = Write(s, draining, q)
         /\ n' = Len(q)
         /\ wpc' = "send"
         /\ interval' = iv /\ elapsed' = el /\ err' = e
         /\ UNCHANGED <<writing, writers, streamErr, lastExit>>

\* the head of the loop, with the sink's seq s and queue q as they are now and
\* the goroutine's err, interval and time since the deadline was set
LoopTop(s, q, e, iv, el) ==
    IF (~draining /\ Len(q) = 0) \/ IsClosed
    THEN WriteExit(e, IF IsClosed THEN "streamClosed" ELSE "drained")
    ELSE /\ close' = draining
         /\ msg' = Write(s, draining, q)
         /\ n' = Len(q)
         /\ wpc' = "send"
         /\ interval' = iv /\ elapsed' = el /\ err' = e
         /\ UNCHANGED <<writing, writers, streamErr, lastExit>>

\* write() starts: interval, deadline, first Lock, head of the loop
WriteStart ==
    /\ wpc = "start"
    /\ LoopTop(seq, queue, FALSE, MinRetryInterval, 0)
    /\ UNCHANGED <<nonSigVars, CloseOnFailure, BlockOnClose, seq, queue, draining, chan, accepted,
                   wmRes, cpc, rseq, rpc, emitted, trimmed>>

\* Stream.Send returns nil: the frame is on its way to the peer
SendOK ==
    /\ wpc = "send"
    /\ streamErr = "nil"
    /\ Len(chan) < MaxChan
    /\ chan' = Append(chan, msg)
    /\ err' = FALSE
    /\ wpc' = "ok"
    /\ UNCHANGED <<nonSigVars, CloseOnFailure, BlockOnClose, seq, queue, writing, draining,
                   streamErr, interval, elapsed, close, n, msg, writers, accepted,
                   wmRes, cpc, rseq, rpc, emitted, trimmed, lastExit>>

\* the interval doubled without the cap
NextInterval_noCap(i) == i * 2

\* the interval of the next attempt after a failed one
NextInterval(i) == IF i * 2 > MaxRetryInterval THEN MaxRetryInterval ELSE i * 2

\* time.Now().After(deadline), el being the time since the deadline was set
PastDeadline(el) == el > RetryTimeout

\* Stream.Send returns an error after d milliseconds, at the latest when the
\* timeout (interval) expires; a Send that timed out may have delivered its
\* frame all the same
SendFail ==
    /\ wpc = "send"
    /\ \E d \in {interval \div 2, interval}, delivered \in BOOLEAN :
          /\ delivered => (d = interval /\ streamErr = "nil" /\ Len(chan) < MaxChan)
          /\ chan' = IF delivered THEN Append(chan, msg) ELSE chan
          /\ elapsed' = Min2(elapsed + d, RetryTimeout + 1)
          /\ err' = TRUE
          /\ IF PastDeadline(elapsed')
             THEN wpc' = "giveup" /\ UNCHANGED interval
             ELSE wpc' = "failed" /\ interval' = NextInterval(interval)
    /\ UNCHANGED <<nonSigVars, CloseOnFailure, BlockOnClose, seq, queue, writing, draining,
                   streamErr, close, n, msg, writers, accepted, wmRes, cpc, rseq,
                   rpc, emitted, trimmed, lastExit>>

\* the deadline has passed: Lock, discard the queue, leave the loop
GiveUp ==
    /\ wpc = "giveup"
    /\ seq' = seq + Len(queue)
    /\ queue' = <<>>
    /\ WriteExit(err, "giveup")
    /\ UNCHANGED <<nonSigVars, CloseOnFailure, BlockOnClose, draining, chan, accepted, wmRes, cpc,
                   rseq, rpc, emitted, trimmed>>

\* after a failed Send within the deadline: Lock, back to the head of the loop
AfterFail ==
    /\ wpc = "failed"
    /\ LoopTop(seq, queue, err, interval, elapsed)
    /\ UNCHANGED <<nonSigVars, CloseOnFailure, BlockOnClose, seq, queue, draining, chan, accepted,
                   wmRes, cpc, rseq, rpc, emitted, trimmed>>

\* the counter advanced by one per send
Advance_one(s, k) == s + 1

\* s.seq += uint64(n)
Advance(s, k) == s + k

\* the queue without the k messages of the batch that was sent
Dequeue(q, k) == SubSeq(q, k + 1, Len(q))

\* after a successful Send: Lock, advance, then leave or go round again
AfterOK ==
    /\ wpc = "ok"
    /\ seq' = Advance(seq, n)
    /\ queue' = Dequeue(queue, n)
    /\ IF close THEN WriteExit(err, "closeSent")
       ELSE LoopTop(seq', queue', err, MinRetryInterval, 0)
    /\ UNCHANGED <<nonSigVars, CloseOnFailure, BlockOnClose, draining, chan, accepted, wmRes, cpc,
                   rseq, rpc, emitted, trimmed>>

----------------------------------------------------------------------------
(***************************************************************************)
(* The peer: CopySignalStreamToMessageChannel and signalMessageReader.Read *)
(***************************************************************************)

\* Read without the trimming of the overlap
Read_noTrim(rs, m) ==
    IF rs < m.seq
    THEN [res |-> <<>>, err |-> TRUE, seq |-> rs]
    ELSE [res |-> m.msgs, err |-> FALSE, seq |-> rs + Len(m.msgs)]

\* Read without the check for a frame ahead of the counter
Read_noDrop(rs, m) ==
    LET k   == IF rs > m.seq THEN Min2(rs - m.seq, Len(m.msgs)) ELSE 0
        res == SubSeq(m.msgs, k + 1, Len(m.msgs))
    IN  [res |-> res, err |-> FALSE, seq |-> rs + Len(res)]

\* signalMessageReader.Read: the messages to emit, the error, the new counter
Read(rs, m) ==
    IF rs < m.seq
    THEN [res |-> <<>>, err |-> TRUE, seq |-> rs]
    ELSE LET k   == IF rs > m.seq THEN Min2(rs - m.seq, Len(m.msgs)) ELSE 0
             res == SubSeq(m.msgs, k + 1, Len(m.msgs))
         IN  [res |-> res, err |-> FALSE, seq |-> rs + Len(res)]

\* one round of the copy loop: take the next frame, Read it, pass on what it
\* yields, stop on an error or on a close frame
CopyFrame ==
    /\ rpc = "reading"
    /\ chan # <<>>
    /\ LET m == Head(chan)
           r == Read(rseq, m)
       IN  /\ chan' = Tail(chan)
           /\ rseq' = r.seq
           /\ emitted' = emitted \o r.res
           /\ trimmed' = (trimmed \/ (~r.err /\ Len(r.res) < Len(m.msgs)))
           /\ rpc' = IF r.err THEN "dropped" ELSE IF m.close THEN "closed" ELSE "reading"
    /\ UNCHANGED <<nonSigVars, CloseOnFailure, BlockOnClose, seq, queue, writing, draining,
                   streamErr, wpc, interval, elapsed, close, n, msg, err, writers,
                   accepted, wmRes, cpc, lastExit>>

\* the stream ends from the other side (the peer closes it, or its context is
\* cancelled)
RemoteClose ==
    /\ streamErr = "nil"
    /\ streamErr' = "remote"
    /\ UNCHANGED <<nonSigVars, CloseOnFailure, BlockOnClose, seq, queue, writing, draining, chan,
                   wpc, interval, elapsed, close, n, msg, err, writers, accepted,
                   wmRes, cpc, rseq, rpc, emitted, trimmed, lastExit>>

----------------------------------------------------------------------------
(***************************************************************************)
(* RED: packets, unsigned arithmetic, payload bytes                        *)
(***************************************************************************)

\* uint16 subtraction
Sub16(a, b) == (a - b + 65536) % 65536

\* uint32 addition of a small d and uint32 subtraction, on <<high, low>>
Add32(a, d) == <<(a[1] + ((a[2] + d) \div 65536)) % 65536, (a[2] + d) % 65536>>
Sub32(a, b) ==
    LET borrow == IF a[2] < b[2] THEN 1 ELSE 0
    IN  <<(a[1] - b[1] - borrow + 65536) % 65536, (a[2] - b[2] + 65536) % 65536>>

\* x >= 1 << 14 and x & 0x3FFF for a uint32, x & 0x3FF for a length
AtLeast14(x) == x[1] > 0 \/ x[2] >= 16384
Low14(x) == x[2] % 16384
Low10(l) == l % 1024

\* *rtp.Packet: nil, and the k-th packet of the source stream.  The payload
\* of packet k is len bytes that belong to k alone.
NoPkt == [sn |-> -1, ts |-> <<0, 0>>, len |-> 0, id |-> -1]
SrcTs(k, gapAt) == Add32(TsBase, k * TsStep + (IF k >= gapAt THEN TsGap ELSE 0))
SrcPkt(k, len, gapAt) ==
    [sn |-> (SnBase + k) % 65536, ts |-> SrcTs(k, gapAt), len |-> len, id |-> k]

\* bytes: a sequence of chunks, each [id, off, len]: len bytes from offset
\* off of the payload of packet id
Payload(p) == IF p.len = 0 THEN <<>> ELSE <<[id |-> p.id, off |-> 0, len |-> p.len]>>

RECURSIVE NumBytes(_)
NumBytes(cs) == IF cs = <<>> THEN 0 ELSE Head(cs).len + NumBytes(Tail(cs))

----------------------------------------------------------------------------
(***************************************************************************)
(* RedReceiver.encodeRedForPrimary: collect the redundancy, update the     *)
(* history                                                                 *)
(***************************************************************************)

\* the last nil entry of the history (0 if there is none; entries count from 1)
LastNilPkt(buf) ==
    LET nils == {i \in 1..Len(buf) : buf[i] = NoPkt}
    IN  IF nils = {} THEN 0 ELSE CHOOSE i \in nils : \A j \in nils : j <= i

SkipPrev_wide(pkt, prev, redLength) ==
    \/ pkt.sn = prev.sn
    \/ Sub16(pkt.sn, prev.sn) > 16
    \/ AtLeast14(Sub32(pkt.ts, prev.ts))

\* the test that leaves prev out of the redundancy of pkt
SkipPrev(pkt, prev, redLength) ==
    \/ pkt.sn = prev.sn
    \/ Sub16(pkt.sn, prev.sn) > redLength
    \/ AtLeast14(Sub32(pkt.ts, prev.ts))

\* redPkts: the entries after the last nil that pass the test, in history order
CollectRed(buf, pkt) ==
    LET first == LastNilPkt(buf) + 1
        cand  == SubSeq(buf, first, Len(buf))
        Keep(prev) == ~SkipPrev(pkt, prev, Len(buf))
    IN  SelectSeq(cand, Keep)

\* the insertion loop from entry i downwards
RECURSIVE InsertFrom(_, _, _)
InsertFrom(buf, pkt, i) ==
    IF i < 1 THEN buf
    ELSE IF buf[i] = NoPkt \/ Sub16(pkt.sn, buf[i].sn) < 32768
    THEN [j \in 1..Len(buf) |-> IF j < i THEN buf[j + 1] ELSE IF j = i THEN pkt ELSE buf[j]]
    ELSE InsertFrom(buf, pkt, i - 1)

InsertPkt_noShift(buf, pkt) == [buf EXCEPT ![Len(buf)] = pkt]

InsertPkt(buf, pkt) == InsertFrom(buf, pkt, Len(buf))

----------------------------------------------------------------------------
(***************************************************************************)
(* encodeRedForPrimary: the RED payload of a primary and its redundancy    *)
(***************************************************************************)

RECURSIVE RedSize(_)
RedSize(ps) == IF ps = <<>> THEN 0 ELSE Head(ps).len + 4 + RedSize(Tail(ps))

FitRed_keepNewest(redPkts, primary, cap) ==
    IF primary.len + 1 + RedSize(redPkts) > cap
    THEN SubSeq(redPkts, Len(redPkts), Len(redPkts))
    ELSE redPkts

\* the redundancy that is encoded: none if the buffer of cap bytes is too small
FitRed(redPkts, primary, cap) ==
    IF primary.len + 1 + RedSize(redPkts) > cap THEN <<>> ELSE redPkts

\* one 32-bit block header: F = 1, PT, 14 bits of timestamp offset, 10 bits of length
BlockHeader(primary, p) ==
    [tsOff |-> Low14(Sub32(primary.ts, p.ts)), blen |-> Low10(p.len)]

RECURSIVE ConcatPayloads(_)
ConcatPayloads(ps) ==
    IF ps = <<>> THEN <<>> ELSE Payload(Head(ps)) \o ConcatPayloads(Tail(ps))

EncodeRedForPrimary_wholeBuf(redPkts, primary, cap) ==
    LET used   == FitRed(redPkts, primary, cap)
        hdrs   == [i \in 1..Len(used) |-> BlockHeader(primary, used[i])]
        data   == ConcatPayloads(Append(used, primary))
    IN  [err |-> FALSE, hdrs |-> hdrs, data |-> data, size |-> cap]

\* the payload written to a buffer of cap bytes: the block headers, the data
\* blocks with the primary's last, the length written; err when a block does
\* not fit in what is left of the buffer
EncodeRedForPrimary(redPkts, primary, cap) ==
    LET used   == FitRed(redPkts, primary, cap)
        hdrs   == [i \in 1..Len(used) |-> BlockHeader(primary, used[i])]
        blocks == Append(used, primary)
        data   == ConcatPayloads(blocks)
        size   == 4 * Len(used) + 1 + NumBytes(data)
    IN  [err |-> size > cap, hdrs |-> hdrs, data |-> data,
         size |-> IF size > cap THEN 0 ELSE size]

----------------------------------------------------------------------------
(***************************************************************************)
(* RedReceiver                                                             *)
(***************************************************************************)

NoOut == [sent |-> FALSE, pkt |-> NoPkt, hist |-> <<>>, redPkts |-> <<>>,
          hdrs |-> <<>>, data |-> <<>>, size |-> 0]

RedInit ==
    /\ redDownTracks = {}
    /\ pktBuff = [i \in 1..maxRedCount |-> NoPkt]
    /\ redOut = NoOut
    /\ forwarded = <<>>
    /\ redCalls = 0
    /\ srcLen = [k \in 0..(MaxSrc - 1) |-> 0]
    /\ tsGapAt \in 1..MaxSrc

\* the RED part while the signal relay runs
RedIdle ==
    /\ redDownTracks = {}
    /\ pktBuff = [i \in 1..maxRedCount |-> NoPkt]
    /\ redOut = NoOut
    /\ forwarded = <<>>
    /\ redCalls = 0
    /\ srcLen = [k \in 0..(MaxSrc - 1) |-> 0]
    /\ tsGapAt = MaxSrc

\* RedReceiver.AddDownTrack
RedAddDownTrack ==
    /\ redDownTracks' = redDownTracks \cup {"sub"}
    /\ redDownTracks' # redDownTracks
    /\ UNCHANGED <<nonRedVars, pktBuff, redOut, forwarded, redCalls, srcLen, tsGapAt>>

\* RedReceiver.DeleteDownTrack
RedDeleteDownTrack ==
    /\ redDownTracks # {}
    /\ redDownTracks' = redDownTracks \ {"sub"}
    /\ UNCHANGED <<nonRedVars, pktBuff, redOut, forwarded, redCalls, srcLen, tsGapAt>>

\* RedReceiver.ForwardRTP with packet k of the source stream
ForwardRTP ==
    /\ redCalls < MaxFwd
    /\ \E k \in 0..(MaxSrc - 1), l \in Lens :
          /\ srcLen[k] \in {0, l}
          /\ srcLen' = [srcLen EXCEPT ![k] = l]
          /\ redCalls' = redCalls + 1
          /\ IF redDownTracks = {}
             THEN UNCHANGED <<pktBuff, redOut, forwarded>>
             ELSE LET pkt     == SrcPkt(k, l, tsGapAt)
                      redPkts == CollectRed(pktBuff, pkt)
                      enc     == EncodeRedForPrimary(redPkts, pkt, mtuSize)
                  IN  /\ pktBuff' = InsertPkt(pktBuff, pkt)
                      /\ IF enc.err
                         THEN UNCHANGED <<redOut, forwarded>>
                         ELSE /\ redOut' = [sent |-> TRUE, pkt |-> pkt, hist |-> pktBuff,
                                            redPkts |-> redPkts, hdrs |-> enc.hdrs,
                                            data |-> enc.data, size |-> enc.size]
                              /\ forwarded' = Append(forwarded, k)
    /\ UNCHANGED <<nonRedVars, redDownTracks, tsGapAt>>

----------------------------------------------------------------------------
(***************************************************************************)
(* RED round trip: encodeRedForPrimary over the r packets before each      *)
(* primary, a lossy path, and the RED primary receiver                     *)
(***************************************************************************)

\* the first cnt bytes of cs, and what follows them
RECURSIVE TakeBytes(_, _)
TakeBytes(cs, cnt) ==
    IF cnt = 0 \/ cs = <<>> THEN <<>>
    ELSE IF Head(cs).len <= cnt
    THEN <<Head(cs)>> \o TakeBytes(Tail(cs), cnt - Head(cs).len)
    ELSE <<[Head(cs) EXCEPT !.len = cnt]>>

RECURSIVE DropBytes(_, _)
DropBytes(cs, cnt) ==
    IF cnt = 0 \/ cs = <<>> THEN cs
    ELSE IF Head(cs).len <= cnt
    THEN DropBytes(Tail(cs), cnt - Head(cs).len)
    ELSE <<[Head(cs) EXCEPT !.off = @ + cnt, !.len = @ - cnt]>> \o Tail(cs)

NoRed == [sn |-> -1, ts |-> <<0, 0>>, hdrs |-> <<>>, data |-> <<>>]

\* generatePkts: the k-th primary packet
RtPkt(k, lens, step) ==
    [sn |-> (RtSnBase + k) % 65536, ts |-> Add32(TsBase, k * step),
     len |-> lens[k + 1], id |-> k]

EncodingPkts_more(k, lens, step, redCount) ==
    LET first == IF k - redCount - 1 < 0 THEN 0 ELSE k - redCount - 1
    IN  [i \in 1..(k - first) |-> RtPkt(first + i - 1, lens, step)]

\* generateRedPkts: packet k encoded with the redCount packets before it
EncodingPkts(k, lens, step, redCount) ==
    LET first == IF k - redCount < 0 THEN 0 ELSE k - redCount
    IN  [i \in 1..(k - first) |-> RtPkt(first + i - 1, lens, step)]

GenerateRedPkt(k, lens, step, redCount) ==
    LET pkt == RtPkt(k, lens, step)
        enc == EncodeRedForPrimary(EncodingPkts(k, lens, step, redCount), pkt, mtuSize)
    IN  [sn |-> pkt.sn, ts |-> pkt.ts, hdrs |-> enc.hdrs, data |-> enc.data]

\* the decoder: the bytes before block i, the redundancy blocks as primary
\* packets, the primary
RECURSIVE BlockStart(_, _)
BlockStart(hdrs, i) == IF i <= 1 THEN 0 ELSE BlockStart(hdrs, i - 1) + hdrs[i - 1].blen

ExtractRedundancy(red) ==
    LET count == Len(red.hdrs)
    IN  [i \in 1..count |->
            [sn   |-> Sub16(red.sn, count - i + 1),
             ts   |-> Sub32(red.ts, <<0, red.hdrs[i].tsOff>>),
             data |-> TakeBytes(DropBytes(red.data, BlockStart(red.hdrs, i)),
                                red.hdrs[i].blen)]]

ExtractPrimary(red) ==
    [sn |-> red.sn, ts |-> red.ts,
     data |-> DropBytes(red.data, BlockStart(red.hdrs, Len(red.hdrs) + 1))]

GetSendPkts_all(red, delivered, lastSeq) ==
    ExtractRedundancy(red) \o <<ExtractPrimary(red)>>

\* what the decoder sends for a RED packet: the redundancy blocks not yet
\* delivered, then the primary; the first packet, and a packet further behind
\* the newest than the window, give their primary alone
GetSendPkts(red, delivered, lastSeq) ==
    LET New(b) == b.sn \notin delivered
        behind == Sub16(lastSeq, red.sn)
        recovered == IF lastSeq = -1 THEN <<>>
                     ELSE IF behind < 32768 /\ behind > DeliveredWindow THEN <<>>
                     ELSE SelectSeq(ExtractRedundancy(red), New)
    IN  Append(recovered, ExtractPrimary(red))

\* the newest primary sequence number after red
NextLastSeq(red, lastSeq) ==
    IF lastSeq = -1 \/ Sub16(red.sn, lastSeq) < 32768 THEN red.sn ELSE lastSeq

RtInit ==
    /\ rtR \in 0..maxRedCount
    /\ rtTsStep \in RtTsSteps
    /\ rtSent = <<>>
    /\ rtDrop = <<>>
    /\ rtWire = NoRed
    /\ rtRecv = <<>>
    /\ rtDelivered = {}
    /\ rtLastSeq = -1
    /\ rtLastIn = -1
    /\ rtFed = 0

\* the round trip at rest
RtIdle ==
    /\ rtR = 0
    /\ rtTsStep = TsStep
    /\ rtSent = <<>>
    /\ rtDrop = <<>>
    /\ rtWire = NoRed
    /\ rtRecv = <<>>
    /\ rtDelivered = {}
    /\ rtLastSeq = -1
    /\ rtLastIn = -1
    /\ rtFed = 0

\* the next primary packet is RED-encoded and sent
RtEncode ==
    /\ rtWire = NoRed
    /\ Len(rtSent) < MaxRT
    /\ \E l \in Lens :
          /\ rtSent' = Append(rtSent, l)
          /\ rtWire' = GenerateRedPkt(Len(rtSent), rtSent', rtTsStep, rtR)
    /\ UNCHANGED <<nonRtVars, rtR, rtTsStep, rtDrop, rtRecv, rtDelivered, rtLastSeq, rtLastIn, rtFed>>

\* the RED packet is lost on the way
RtLose ==
    /\ rtWire # NoRed
    /\ rtWire' = NoRed
    /\ rtDrop' = Append(rtDrop, TRUE)
    /\ UNCHANGED <<nonRtVars, rtR, rtTsStep, rtSent, rtRecv, rtDelivered, rtLastSeq, rtLastIn, rtFed>>

\* RedPrimaryReceiver.ForwardRTP with the RED packet red, the k-th generated
PrimaryForwardRTP(red, k) ==
    LET send == GetSendPkts(red, rtDelivered, rtLastSeq)
    IN  /\ rtRecv' = rtRecv \o send
        /\ rtDelivered' = rtDelivered \cup {send[i].sn : i \in 1..Len(send)}
        /\ rtLastSeq' = NextLastSeq(red, rtLastSeq)
        /\ rtLastIn' = k
        /\ rtFed' = rtFed + 1

\* the RED packet arrives
RtForwardRTP ==
    /\ rtWire # NoRed
    /\ rtWire' = NoRed
    /\ rtDrop' = Append(rtDrop, FALSE)
    /\ PrimaryForwardRTP(rtWire, Len(rtSent) - 1)
    /\ UNCHANGED <<nonRtVars, rtR, rtTsStep, rtSent>>

\* generatePkts: the packets of the out-of-order feed, all generated beforehand
RtUnorderInit ==
    /\ rtR \in 0..maxRedCount
    /\ rtTsStep = TsStep
    /\ rtSent = [i \in 1..MaxIdx |-> 12]
    /\ rtDrop = <<>>
    /\ rtWire = NoRed
    /\ rtRecv = <<>>
    /\ rtDelivered = {}
    /\ rtLastSeq = -1
    /\ rtLastIn = -1
    /\ rtFed = 0

\* testRedRedPrimaryReceiver: the RED packet of any generated packet is handed
\* to the receiver next
RtForwardAny ==
    /\ rtFed < MaxSend
    /\ \E k \in 0..(MaxIdx - 1) :
          PrimaryForwardRTP(GenerateRedPkt(k, rtSent, rtTsStep, rtR), k)
    /\ UNCHANGED <<nonRtVars, rtR, rtTsStep, rtSent, rtDrop, rtWire>>

----------------------------------------------------------------------------
(***************************************************************************)
(* WebRTCReceiver: forwarding loops, DownTrackSpreader, close, RED wrappers *)
(***************************************************************************)

NoWrapper == [primary |-> 0, red |-> 0]

\* what a getter returned: nothing yet, the receiver itself, or a wrapper
NoRes == [ret |-> "none", id |-> 0]
Self == [ret |-> "self", id |-> 0]
Wrapper(id) == [ret |-> "wrapper", id |-> id]

RcvInit ==
    /\ isRED \in BOOLEAN
    /\ rcvClosed = FALSE
    /\ closeOnce = "idle"
    /\ downTracks = {}
    /\ wrapper = NoWrapper
    /\ redPktWriter = 0
    /\ wrClosed = 0
    /\ wrDownTracks = {}
    /\ instances = 0
    /\ loopPc = [l \in Layers |-> "read"]
    /\ nextPkt = [l \in Layers |-> 0]
    /\ pending = [l \in Layers |-> {}]
    /\ dtLast = [s \in Subs |-> [l \in Layers |-> -1]]
    /\ closeList = {}
    /\ closeRuns = 0
    /\ stmClosed = 0
    /\ onClosed = 0
    /\ dtClosed = [s \in Subs |-> 0]
    /\ dtNotified = [s \in Subs |-> 0]
    /\ addPc = [s \in Subs |-> "idle"]
    /\ addRes = [s \in Subs |-> "none"]
    /\ addCalls = 0
    /\ wrAddRes = "none"
    /\ getPc = [g \in Getters |-> [at |-> "idle", kind |-> "red"]]
    /\ getNew = [g \in Getters |-> 0]
    /\ getRes = [g \in Getters |-> NoRes]

\* the receiver at rest
RcvIdle == RcvInit /\ isRED = FALSE

ClosedLoad_never(closed) == FALSE

\* closed.Load() of a receiver or of its wrapper
ClosedLoad(closed) == closed

\* WebRTCReceiver.AddDownTrack: the closed check
AddDownTrack ==
    /\ addCalls < MaxAdd
    /\ \E s \in Subs :
          /\ addPc[s] = "idle"
          /\ addCalls' = addCalls + 1
          /\ IF ClosedLoad(rcvClosed)
             THEN /\ addRes' = [addRes EXCEPT ![s] = "ErrReceiverClosed"]
                  /\ UNCHANGED addPc
             ELSE /\ addPc' = [addPc EXCEPT ![s] = "notify"]
                  /\ addRes' = [addRes EXCEPT ![s] = "none"]
    /\ UNCHANGED <<nonRcvVars, isRED, rcvClosed, closeOnce, downTracks, wrapper,
                   redPktWriter, wrClosed, wrDownTracks, instances, loopPc, nextPkt,
                   pending, dtLast, closeList, closeRuns, stmClosed, onClosed,
                   dtClosed, dtNotified, wrAddRes, getPc, getNew, getRes>>

\* WebRTCReceiver.AddDownTrack: TrackInfoAvailable and the two layer notifications
AddNotify ==
    /\ \E s \in Subs :
          /\ addPc[s] = "notify"
          /\ dtNotified' = [dtNotified EXCEPT ![s] = @ + 1]
          /\ addPc' = [addPc EXCEPT ![s] = "store"]
    /\ UNCHANGED <<nonRcvVars, isRED, rcvClosed, closeOnce, downTracks, wrapper,
                   redPktWriter, wrClosed, wrDownTracks, instances, loopPc, nextPkt,
                   pending, dtLast, closeList, closeRuns, stmClosed, onClosed,
                   dtClosed, addRes, addCalls, wrAddRes, getPc, getNew, getRes>>

\* WebRTCReceiver.AddDownTrack: DownTrackSpreader.Store
AddStore ==
    /\ \E s \in Subs :
          /\ addPc[s] = "store"
          /\ downTracks' = downTracks \cup {s}
          /\ addRes' = [addRes EXCEPT ![s] = "nil"]
          /\ addPc' = [addPc EXCEPT ![s] = "idle"]
    /\ UNCHANGED <<nonRcvVars, isRED, rcvClosed, closeOnce, wrapper,
                   redPktWriter, wrClosed, wrDownTracks, instances, loopPc, nextPkt,
                   pending, dtLast, closeList, closeRuns, stmClosed, onClosed,
                   dtClosed, dtNotified, addCalls, wrAddRes, getPc, getNew, getRes>>

\* WebRTCReceiver.DeleteDownTrack
DeleteDownTrack ==
    /\ \E s \in downTracks :
          IF rcvClosed THEN UNCHANGED downTracks
          ELSE downTracks' = downTracks \ {s}
    /\ UNCHANGED <<nonRcvVars, isRED, rcvClosed, closeOnce, wrapper,
                   redPktWriter, wrClosed, wrDownTracks, instances, loopPc, nextPkt,
                   pending, dtLast, closeList, closeRuns, stmClosed, onClosed,
                   dtClosed, dtNotified, addPc, addRes, addCalls, wrAddRes,
                   getPc, getNew, getRes>>

\* RedReceiver.AddDownTrack on the installed wrapper
WrapperAddDownTrack ==
    /\ wrapper.red # 0
    /\ \E s \in Subs :
          IF ClosedLoad(wrClosed > 0)
          THEN /\ wrAddRes' = "ErrReceiverClosed"
               /\ UNCHANGED wrDownTracks
          ELSE /\ wrAddRes' = "nil"
               /\ wrDownTracks' = wrDownTracks \cup {s}
    /\ UNCHANGED <<nonRcvVars, isRED, rcvClosed, closeOnce, downTracks, wrapper,
                   redPktWriter, wrClosed, instances, loopPc, nextPkt,
                   pending, dtLast, closeList, closeRuns, stmClosed, onClosed,
                   dtClosed, dtNotified, addPc, addRes, addCalls, getPc, getNew, getRes>>

\* groups of receiver variables an action leaves alone
addVars == <<addPc, addRes, addCalls, dtNotified, wrAddRes>>
getVars == <<getPc, getNew, getRes, instances>>
loopVars == <<nextPkt, pending, dtLast>>
closeVars == <<closeList, closeRuns, stmClosed, onClosed, dtClosed>>

\* the wrapper direction kind does not apply to this receiver
NotApplicable(kind) == IF kind = "primary" THEN ~isRED ELSE isRED

\* GetPrimaryReceiverForRed / GetRedReceiver: the checks and the first Load
GetEnter ==
    /\ \E g \in Getters, kind \in {"primary", "red"} :
          /\ getPc[g].at = "idle"
          /\ IF NotApplicable(kind) \/ rcvClosed
             THEN /\ getRes' = [getRes EXCEPT ![g] = Self]
                  /\ getPc' = [getPc EXCEPT ![g] = [at |-> "done", kind |-> kind]]
             ELSE IF wrapper[kind] = 0
             THEN /\ getPc' = [getPc EXCEPT ![g] = [at |-> "create", kind |-> kind]]
                  /\ UNCHANGED getRes
             ELSE /\ getRes' = [getRes EXCEPT ![g] = Wrapper(wrapper[kind])]
                  /\ getPc' = [getPc EXCEPT ![g] = [at |-> "done", kind |-> kind]]
    /\ UNCHANGED <<nonRcvVars, isRED, rcvClosed, closeOnce, downTracks, wrapper,
                   redPktWriter, wrClosed, wrDownTracks, instances, loopPc, loopVars,
                   closeVars, addVars, getNew>>

CompareAndSwap_store(cur, old, new) == new

\* atomic.Value.CompareAndSwap: the value stored afterwards
CompareAndSwap(cur, old, new) == IF cur = old THEN new ELSE cur

\* NewRedPrimaryReceiver / NewRedReceiver, then CompareAndSwap(nil, pr)
GetCreate ==
    /\ \E g \in Getters :
          /\ getPc[g].at = "create"
          /\ instances' = instances + 1
          /\ getNew' = [getNew EXCEPT ![g] = instances + 1]
          /\ wrapper' = [wrapper EXCEPT ![getPc[g].kind] = CompareAndSwap(@, 0, instances + 1)]
          /\ getPc' = [getPc EXCEPT ![g].at =
                          IF wrapper[getPc[g].kind] = 0 THEN "writer" ELSE "ret"]
    /\ UNCHANGED <<nonRcvVars, isRED, rcvClosed, closeOnce, downTracks,
                   redPktWriter, wrClosed, wrDownTracks, loopPc, loopVars,
                   closeVars, addVars, getRes>>

\* the caller whose CompareAndSwap succeeded sets redPktWriter
GetSetWriter ==
    /\ \E g \in Getters :
          /\ getPc[g].at = "writer"
          /\ redPktWriter' = getNew[g]
          /\ getPc' = [getPc EXCEPT ![g].at = "ret"]
    /\ UNCHANGED <<nonRcvVars, isRED, rcvClosed, closeOnce, downTracks, wrapper,
                   wrClosed, wrDownTracks, instances, loopPc, loopVars,
                   closeVars, addVars, getNew, getRes>>

\* the final Load that is returned
GetReturn ==
    /\ \E g \in Getters :
          /\ getPc[g].at = "ret"
          /\ getRes' = [getRes EXCEPT ![g] = Wrapper(wrapper[getPc[g].kind])]
          /\ getPc' = [getPc EXCEPT ![g].at = "done"]
    /\ UNCHANGED <<nonRcvVars, isRED, rcvClosed, closeOnce, downTracks, wrapper,
                   redPktWriter, wrClosed, wrDownTracks, instances, loopPc, loopVars,
                   closeVars, addVars, getNew>>

\* forwardRTP: ReadExtended hands out the next packet; Broadcast takes the
\* DownTracks stored
LoopRead ==
    /\ \E l \in Layers :
          /\ loopPc[l] = "read"
          /\ nextPkt[l] < MaxPkt
          /\ nextPkt' = [nextPkt EXCEPT ![l] = @ + 1]
          /\ pending' = [pending EXCEPT ![l] = @ \cup {<<s, nextPkt[l]>> : s \in downTracks}]
          /\ loopPc' = [loopPc EXCEPT ![l] = "bcast"]
    /\ UNCHANGED <<nonRcvVars, isRED, rcvClosed, closeOnce, downTracks, wrapper,
                   redPktWriter, wrClosed, wrDownTracks, dtLast,
                   closeVars, addVars, getVars>>

\* Broadcast: one WriteRTP of the packet, in any order over the DownTracks
WriteRTP ==
    /\ \E l \in Layers :
          /\ loopPc[l] = "bcast"
          /\ \E w \in pending[l] :
                /\ dtLast' = [dtLast EXCEPT ![w[1]][l] = w[2]]
                /\ pending' = [pending EXCEPT ![l] = @ \ {w}]
    /\ UNCHANGED <<nonRcvVars, isRED, rcvClosed, closeOnce, downTracks, wrapper,
                   redPktWriter, wrClosed, wrDownTracks, loopPc, nextPkt,
                   closeVars, addVars, getVars>>

BroadcastDone_noWait(calls) == TRUE

\* utils.ParallelExec returns when every call has been made
BroadcastDone(calls) == calls = {}

\* forwardRTP: Broadcast has returned, redPktWriter is called, the loop goes on
LoopNext ==
    /\ \E l \in Layers :
          /\ loopPc[l] = "bcast"
          /\ BroadcastDone(pending[l])
          /\ loopPc' = [loopPc EXCEPT ![l] = "read"]
    /\ UNCHANGED <<nonRcvVars, isRED, rcvClosed, closeOnce, downTracks, wrapper,
                   redPktWriter, wrClosed, wrDownTracks, loopVars,
                   closeVars, addVars, getVars>>

\* forwardRTP: ReadExtended returns io.EOF
LoopEOF ==
    /\ \E l \in Layers :
          /\ loopPc[l] = "read"
          /\ loopPc' = [loopPc EXCEPT ![l] = "defer"]
    /\ UNCHANGED <<nonRcvVars, isRED, rcvClosed, closeOnce, downTracks, wrapper,
                   redPktWriter, wrClosed, wrDownTracks, loopVars,
                   closeVars, addVars, getVars>>

OnceEnter_again(once) == once # "done"

\* sync.Once.Do: the first caller runs the function
OnceEnter(once) == once = "idle"

\* forwardRTP, deferred: closeOnce.Do; a caller waits while another runs it
LoopDefer ==
    /\ \E l \in Layers :
          /\ loopPc[l] = "defer"
          /\ IF OnceEnter(closeOnce)
             THEN /\ closeOnce' = "running"
                  /\ loopPc' = [loopPc EXCEPT ![l] = "store"]
             ELSE /\ closeOnce = "done"
                  /\ UNCHANGED closeOnce
                  /\ loopPc' = [loopPc EXCEPT ![l] = "after"]
    /\ UNCHANGED <<nonRcvVars, isRED, rcvClosed, downTracks, wrapper,
                   redPktWriter, wrClosed, wrDownTracks, loopVars,
                   closeVars, addVars, getVars>>

\* the close sequence: closed.Store(true)
CloseStore ==
    /\ \E l \in Layers :
          /\ loopPc[l] = "store"
          /\ rcvClosed' = TRUE
          /\ loopPc' = [loopPc EXCEPT ![l] = "tracks"]
    /\ UNCHANGED <<nonRcvVars, isRED, closeOnce, downTracks, wrapper,
                   redPktWriter, wrClosed, wrDownTracks, loopVars,
                   closeVars, addVars, getVars>>

\* closeTracks: streamTrackerManager.Close, ResetAndGetDownTracks
CloseTracks ==
    /\ \E l \in Layers :
          /\ loopPc[l] = "tracks"
          /\ stmClosed' = stmClosed + 1
          /\ closeList' = downTracks
          /\ downTracks' = {}
          /\ loopPc' = [loopPc EXCEPT ![l] = "dts"]
    /\ UNCHANGED <<nonRcvVars, isRED, rcvClosed, closeOnce, wrapper,
                   redPktWriter, wrClosed, wrDownTracks, loopVars,
                   closeRuns, onClosed, dtClosed, addVars, getVars>>

\* closeTracks: Close of every DownTrack returned, then the on-close handler
CloseDownTracks ==
    /\ \E l \in Layers :
          /\ loopPc[l] = "dts"
          /\ dtClosed' = [s \in Subs |-> IF s \in closeList THEN dtClosed[s] + 1
                                         ELSE dtClosed[s]]
          /\ onClosed' = onClosed + 1
          /\ loopPc' = [loopPc EXCEPT ![l] = "wrappers"]
    /\ UNCHANGED <<nonRcvVars, isRED, rcvClosed, closeOnce, downTracks, wrapper,
                   redPktWriter, wrClosed, wrDownTracks, loopVars,
                   closeList, closeRuns, stmClosed, addVars, getVars>>

\* the close sequence: Close of the wrappers stored; closeOnce.Do returns
CloseWrappers ==
    /\ \E l \in Layers :
          /\ loopPc[l] = "wrappers"
          /\ IF wrapper.primary # 0 \/ wrapper.red # 0
             THEN /\ wrClosed' = wrClosed + 1
                  /\ wrDownTracks' = {}
             ELSE UNCHANGED <<wrClosed, wrDownTracks>>
          /\ closeOnce' = "done"
          /\ closeRuns' = closeRuns + 1
          /\ loopPc' = [loopPc EXCEPT ![l] = "after"]
    /\ UNCHANGED <<nonRcvVars, isRED, rcvClosed, downTracks, wrapper,
                   redPktWriter, loopVars,
                   closeList, stmClosed, onClosed, dtClosed, addVars, getVars>>

\* forwardRTP, deferred: RemoveTracker; the goroutine ends
LoopAfter ==
    /\ \E l \in Layers :
          /\ loopPc[l] = "after"
          /\ loopPc' = [loopPc EXCEPT ![l] = "done"]
    /\ UNCHANGED <<nonRcvVars, isRED, rcvClosed, closeOnce, downTracks, wrapper,
                   redPktWriter, wrClosed, wrDownTracks, loopVars,
                   closeVars, addVars, getVars>>

----------------------------------------------------------------------------
\* WebRTCReceiver.AddUpTrack

UpInit ==
    /\ upClosed = FALSE
    /\ upTracks = [l \in Layers |-> 0]
    /\ buffers = [l \in Layers |-> 0]
    /\ upTrackers = [l \in Layers |-> 0]
    /\ fwdLoops = [l \in Layers |-> <<>>]
    /\ upCalls = 0

UpIdle == UpInit

\* AddUpTrack(track, buff) for the layer of the track's rid. Only closed is tested: the
\* track, the buffer and a new tracker are stored and forwardRTP is started
\* whether or not the layer has an up track
AddUpTrack ==
    /\ upCalls < MaxUp
    /\ upCalls' = upCalls + 1
    /\ \E layer \in Layers, track \in UpTrackIds, buff \in UpBufferIds :
          IF upClosed
          THEN UNCHANGED <<upTracks, buffers, upTrackers, fwdLoops>>
          ELSE /\ upTracks' = [upTracks EXCEPT ![layer] = track]
               /\ buffers' = [buffers EXCEPT ![layer] = buff]
               /\ upTrackers' = [upTrackers EXCEPT ![layer] = @ + 1]
               /\ fwdLoops' = [fwdLoops EXCEPT ![layer] = Append(@, buff)]
    /\ UNCHANGED <<nonUpVars, upClosed>>

\* the close sequence of the receiver: closed.Store(true)
UpClose ==
    /\ ~upClosed
    /\ upClosed' = TRUE
    /\ UNCHANGED <<nonUpVars, upTracks, buffers, upTrackers, fwdLoops, upCalls>>

----------------------------------------------------------------------------
\* DownTrackSpreader: the map, its shadow slice, Broadcast

NoSnap == [id |-> 0, len |-> 0]
NoWorker == [at |-> "done", i |-> 0, n |-> 0]

DtsInit ==
    /\ dtsMap = {}
    /\ slices = [i \in SliceIds |-> <<>>]
    /\ dtsShadow = 0
    /\ dtsReturned = <<>>
    /\ bcThreshold \in Thresholds
    /\ bcPc = "idle"
    /\ bcSnap = NoSnap
    /\ bcAtStart = <<>>
    /\ bcNext = 0
    /\ bcStart = 0
    /\ bcWorker = [w \in Workers |-> NoWorker]
    /\ bcWritten = [d \in DownTrackSet |-> 0]

DtsIdle == DtsInit /\ bcThreshold = 0

\* the orders in which ranging over the map can visit its values
MapOrders(m) ==
    {o \in [1..Cardinality(m) -> m] : \A i, j \in 1..Cardinality(m) : i # j => o[i] # o[j]}

StoreDownTrack_add(m, ts) == m \cup {ts}

\* d.downTracks[ts.SubscriberID()] = ts
StoreDownTrack(m, ts) == {d \in m : d.sub # ts.sub} \cup {ts}

\* delete(d.downTracks, subscriberID)
FreeDownTrack(m, sub) == {d \in m : d.sub # sub}

\* the slice a Broadcast in progress still reads
LiveSnap == IF bcPc = "idle" \/ bcSnap.id = 0 THEN {} ELSE {bcSnap.id}

\* the content of a slice reference, nil being the empty slice
SliceOf(id) == IF id = 0 THEN <<>> ELSE slices[id]

\* arrays nothing refers to are gone
Collect(h, live) == [i \in SliceIds |-> IF i \in live THEN h[i] ELSE <<>>]

MakeSlice_inPlace(cur, live) ==
    IF cur # 0 THEN cur ELSE CHOOSE i \in SliceIds : i \notin live

\* make([]TrackSender, 0, len): an array of its own, shared with no other slice
MakeSlice(cur, live) == CHOOSE i \in SliceIds : i \notin live

\* shadowDownTracks for the map m
ShadowDownTracks(m) ==
    \E o \in MapOrders(m) :
       LET id == MakeSlice(dtsShadow, LiveSnap) IN
       /\ dtsShadow' = id
       /\ slices' = Collect([slices EXCEPT ![id] = o], LiveSnap \cup {id})

\* DownTrackSpreader.Store
Store ==
    /\ \E ts \in DownTrackSet :
          /\ dtsMap' = StoreDownTrack(dtsMap, ts)
          /\ ShadowDownTracks(StoreDownTrack(dtsMap, ts))
    /\ UNCHANGED <<nonDtsVars, dtsReturned, bcThreshold, bcPc, bcSnap, bcAtStart,
                   bcNext, bcStart, bcWorker, bcWritten>>

\* DownTrackSpreader.Free
Free ==
    /\ \E sub \in DtsSubs :
          /\ dtsMap' = FreeDownTrack(dtsMap, sub)
          /\ ShadowDownTracks(FreeDownTrack(dtsMap, sub))
    /\ UNCHANGED <<nonDtsVars, dtsReturned, bcThreshold, bcPc, bcSnap, bcAtStart,
                   bcNext, bcStart, bcWorker, bcWritten>>

\* DownTrackSpreader.ResetAndGetDownTracks
ResetAndGetDownTracks ==
    /\ dtsReturned' = SliceOf(dtsShadow)
    /\ dtsMap' = {}
    /\ dtsShadow' = 0
    /\ slices' = Collect(slices, LiveSnap)
    /\ UNCHANGED <<nonDtsVars, bcThreshold, bcPc, bcSnap, bcAtStart,
                   bcNext, bcStart, bcWorker, bcWritten>>

\* Broadcast: the threshold handed to ParallelExec
Threshold == IF bcThreshold = 0 THEN DefaultThreshold ELSE bcThreshold

\* Broadcast: GetDownTracks, then ParallelExec chooses how to run
BroadcastStart ==
    /\ bcPc = "idle"
    /\ bcSnap' = [id |-> dtsShadow, len |-> Len(SliceOf(dtsShadow))]
    /\ bcAtStart' = SliceOf(dtsShadow)
    /\ bcWritten' = [d \in DownTrackSet |-> 0]
    /\ bcNext' = 0
    /\ bcStart' = 0
    /\ IF Len(SliceOf(dtsShadow)) < Threshold
       THEN /\ bcPc' = "seq"
            /\ bcWorker' = [w \in Workers |-> NoWorker]
       ELSE /\ bcPc' = "par"
            /\ bcWorker' = [w \in Workers |-> [at |-> "claim", i |-> 0, n |-> 0]]
    /\ UNCHANGED <<nonDtsVars, dtsMap, slices, dtsShadow, dtsReturned, bcThreshold>>

\* vals[i] of the slice Broadcast holds; an array written in place keeps the
\* old element where the new content is shorter
SnapElem(i) ==
    IF i + 1 <= Len(SliceOf(bcSnap.id)) THEN SliceOf(bcSnap.id)[i + 1]
    ELSE bcAtStart[i + 1]

\* ParallelExec below the threshold: fn(v) for each v in order
SeqWrite ==
    /\ bcPc = "seq"
    /\ bcNext < bcSnap.len
    /\ bcWritten' = [bcWritten EXCEPT ![SnapElem(bcNext)] = @ + 1]
    /\ bcNext' = bcNext + 1
    /\ UNCHANGED <<nonDtsVars, dtsMap, slices, dtsShadow, dtsReturned, bcThreshold,
                   bcPc, bcSnap, bcAtStart, bcStart, bcWorker>>

\* start.Add(step): the counter after a worker has taken the next chunk
ClaimChunk(start) == start + bcStep

\* ParallelExec, a worker: n := start.Add(step); done when n >= end+step
WorkerClaim ==
    /\ bcPc = "par"
    /\ \E w \in Workers :
          /\ bcWorker[w].at = "claim"
          /\ bcStart' = ClaimChunk(bcStart)
          /\ IF ClaimChunk(bcStart) >= bcSnap.len + bcStep
             THEN bcWorker' = [bcWorker EXCEPT ![w] = NoWorker]
             ELSE bcWorker' = [bcWorker EXCEPT ![w] =
                     [at |-> "write", i |-> ClaimChunk(bcStart) - bcStep,
                      n |-> ClaimChunk(bcStart)]]
    /\ UNCHANGED <<nonDtsVars, dtsMap, slices, dtsShadow, dtsReturned, bcThreshold,
                   bcPc, bcSnap, bcAtStart, bcNext, bcWritten>>

\* ParallelExec, a worker: for i := n-step; i < n && i < end; i++ { fn(vals[i]) }
WorkerWrite ==
    /\ bcPc = "par"
    /\ \E w \in Workers :
          /\ bcWorker[w].at = "write"
          /\ IF bcWorker[w].i < bcWorker[w].n /\ bcWorker[w].i < bcSnap.len
             THEN /\ bcWritten' = [bcWritten EXCEPT ![SnapElem(bcWorker[w].i)] = @ + 1]
                  /\ bcWorker' = [bcWorker EXCEPT ![w].i = @ + 1]
             ELSE /\ bcWorker' = [bcWorker EXCEPT ![w].at = "claim"]
                  /\ UNCHANGED bcWritten
    /\ UNCHANGED <<nonDtsVars, dtsMap, slices, dtsShadow, dtsReturned, bcThreshold,
                   bcPc, bcSnap, bcAtStart, bcNext, bcStart>>

\* ParallelExec returns: the loop is over, or wg.Wait() sees every worker done
BroadcastEnd ==
    /\ \/ bcPc = "seq" /\ bcNext = bcSnap.len
       \/ bcPc = "par" /\ \A w \in Workers : bcWorker[w].at = "done"
    /\ bcPc' = "idle"
    /\ slices' = Collect(slices, IF dtsShadow = 0 THEN {} ELSE {dtsShadow})
    /\ UNCHANGED <<nonDtsVars, dtsMap, dtsShadow, dtsReturned, bcThreshold,
                   bcSnap, bcAtStart, bcNext, bcStart, bcWorker, bcWritten>>

----------------------------------------------------------------------------
\* videolayerselector.VP9

\* VideoLayer.IsValid
IsValid(l) == l.spatial # InvalidLayerSpatial /\ l.temporal # InvalidLayerTemporal

\* VideoLayer.GreaterThan: lexicographic on (spatial, temporal)
GreaterThan(a, b) ==
    a.spatial > b.spatial \/ (a.spatial = b.spatial /\ a.temporal > b.temporal)

\* Select, temporal scale up: the packet is an upswitch point within the target
TemporalUp_noU(cur, tgt, pkt) ==
    /\ cur.temporal < tgt.temporal
    /\ pkt.layer.temporal > cur.temporal
    /\ pkt.layer.temporal <= tgt.temporal
    /\ pkt.B

TemporalUp(cur, tgt, pkt) ==
    /\ cur.temporal < tgt.temporal
    /\ pkt.layer.temporal > cur.temporal
    /\ pkt.layer.temporal <= tgt.temporal
    /\ pkt.U /\ pkt.B

\* Select, temporal scale down: at the end of a picture
TemporalDown(cur, tgt, pkt) == cur.temporal > tgt.temporal /\ pkt.E

SpatialUp_anyP(cur, tgt, pkt) ==
    /\ cur.spatial < tgt.spatial
    /\ pkt.layer.spatial > cur.spatial
    /\ pkt.layer.spatial <= tgt.spatial
    /\ pkt.B

\* Select, spatial scale up: the begin of a picture that is not inter-picture predicted
SpatialUp(cur, tgt, pkt) ==
    /\ cur.spatial < tgt.spatial
    /\ pkt.layer.spatial > cur.spatial
    /\ pkt.layer.spatial <= tgt.spatial
    /\ ~pkt.P /\ pkt.B

\* Select, spatial scale down: at the end of a picture
SpatialDown(cur, tgt, pkt) == cur.spatial > tgt.spatial /\ pkt.E

SelectReturnsEarly_noKeyFrame(cur, tgt, pkt) == ~pkt.vp9

\* Select returns at once: no VP9 payload, or no valid layer and no key frame
SelectReturnsEarly(cur, tgt, pkt) ==
    \/ ~pkt.vp9
    \/ cur # tgt /\ ~IsValid(cur) /\ ~pkt.keyFrame

\* Select: the local currentLayer, which only the scale-up branches change
LocalLayer(cur, tgt, pkt) ==
    IF cur = tgt \/ ~IsValid(cur) THEN cur
    ELSE [spatial |-> IF SpatialUp(cur, tgt, pkt) THEN pkt.layer.spatial ELSE cur.spatial,
          temporal |-> IF TemporalUp(cur, tgt, pkt) THEN pkt.layer.temporal ELSE cur.temporal]

\* Select: updatedLayer, which becomes v.currentLayer
UpdatedLayer(cur, tgt, pkt) ==
    IF SelectReturnsEarly(cur, tgt, pkt) \/ cur = tgt THEN cur
    ELSE IF ~IsValid(cur) THEN pkt.layer
    ELSE [spatial |-> IF SpatialUp(cur, tgt, pkt) THEN pkt.layer.spatial
                      ELSE IF SpatialDown(cur, tgt, pkt) THEN tgt.spatial
                      ELSE cur.spatial,
          temporal |-> IF TemporalUp(cur, tgt, pkt) THEN pkt.layer.temporal
                       ELSE IF TemporalDown(cur, tgt, pkt) THEN tgt.temporal
                       ELSE cur.temporal]

\* Select: result.RTPMarker
RTPMarker(cur, tgt, pkt) ==
    \/ pkt.marker
    \/ /\ pkt.E
       /\ pkt.layer.spatial = LocalLayer(cur, tgt, pkt).spatial
       /\ (pkt.P \/ tgt.spatial <= UpdatedLayer(cur, tgt, pkt).spatial)

\* Select: the result of a call that does not return early
SelectResult(cur, tgt, pkt) ==
    LET upd == UpdatedLayer(cur, tgt, pkt) IN
    [RTPMarker |-> RTPMarker(cur, tgt, pkt),
     IsSelected |-> ~GreaterThan(pkt.layer, LocalLayer(cur, tgt, pkt)),
     IsRelevant |-> TRUE,
     IsResuming |-> upd # cur /\ ~IsValid(cur) /\ IsValid(upd),
     IsSwitchingToRequestSpatial |->
        upd # cur /\ cur.spatial # requestSpatial /\ upd.spatial = requestSpatial,
     IsSwitchingToMaxSpatial |->
        upd # cur /\ cur.spatial # maxLayer.spatial /\ upd.spatial = maxLayer.spatial]

Vp9Init ==
    /\ currentLayer \in LayerSet
    /\ prevLayer = InvalidLayer
    /\ targetLayer \in LayerSet
    /\ requestSpatial = targetLayer.spatial
    /\ maxLayer = [spatial |-> DefaultMaxLayerSpatial, temporal |-> MaxTemporal]
    /\ extPkt = OtherPkt
    /\ result = NoResult
    /\ selCalls = 0

Vp9Idle == Vp9Init /\ currentLayer = InvalidLayer /\ targetLayer = InvalidLayer

\* VP9.Select(extPkt, layer)
Select ==
    /\ selCalls < MaxSelect
    /\ selCalls' = selCalls + 1
    /\ \E pkt \in Vp9Pkts \cup {OtherPkt} :
          /\ extPkt' = pkt
          /\ prevLayer' = currentLayer
          /\ currentLayer' = UpdatedLayer(currentLayer, targetLayer, pkt)
          /\ result' = IF SelectReturnsEarly(currentLayer, targetLayer, pkt)
                       THEN NoResult
                       ELSE SelectResult(currentLayer, targetLayer, pkt)
    /\ UNCHANGED <<nonVp9Vars, targetLayer, requestSpatial, maxLayer>>

----------------------------------------------------------------------------
\* StreamTrackerManager

StmInit ==
    /\ isSVC \in BOOLEAN
    /\ trackers = [l \in StmLayers |-> FALSE]
    /\ availableLayers = <<>>
    /\ lastStatus = [l \in StmLayers |-> "none"]
    /\ maxExpectedLayer = TrackInfoMaxLayer
    /\ paused = FALSE
    /\ maxTemporalLayerSeen = InvalidLayerTemporal
    /\ maxPublishedLayer = InvalidLayerSpatial
    /\ trackerBr = NoBitrates
    /\ maxAvailNotified = InvalidLayerSpatial
    /\ layeredOut = NoLayered
    /\ distanceOut = NoDistance
    /\ stmCalled = "none"
    /\ pubNotes = <<>>
    /\ tempNotes = <<>>

StmIdle == StmInit /\ isSVC = FALSE

\* hasSpatialLayerLocked
HasSpatialLayer(al, layer) == \E i \in 1..Len(al) : al[i] = layer

\* sort.Slice with the ascending less function: insertion of one element
RECURSIVE SortInsert(_, _)
SortInsert(s, x) ==
    IF s = <<>> THEN <<x>>
    ELSE IF x < Head(s) THEN <<x>> \o s
    ELSE <<Head(s)>> \o SortInsert(Tail(s), x)

RECURSIVE SortSlice(_)
SortSlice(s) == IF s = <<>> THEN <<>> ELSE SortInsert(SortSlice(Tail(s)), Head(s))

\* the last element of availableLayers, InvalidLayerSpatial of an empty one
MaxOf(al) == IF Len(al) > 0 THEN al[Len(al)] ELSE InvalidLayerSpatial

AddAvailable_noSort(al, layer) ==
    IF HasSpatialLayer(al, layer) THEN al ELSE Append(al, layer)

\* addAvailableLayer: availableLayers afterwards
AddAvailable(al, layer) ==
    IF HasSpatialLayer(al, layer) THEN al ELSE SortSlice(Append(al, layer))

\* removeAvailableLayer: availableLayers afterwards
RemoveAvailable(al, layer) == SortSlice(SelectSeq(al, LAMBDA l : l # layer))

Notify_always(cur, new) == TRUE

\* AddTracker, updateMaxTemporalLayerSeen: a value above the stored one is
\* stored and given to the listener
Notify(cur, new) == new > cur

\* AddTracker(layer)
AddTracker ==
    /\ \E layer \in StmLayers :
          /\ trackers' = [trackers EXCEPT ![layer] = TRUE]
          /\ maxPublishedLayer' = IF Notify(maxPublishedLayer, layer) THEN layer
                                  ELSE maxPublishedLayer
          /\ pubNotes' = IF Notify(maxPublishedLayer, layer) THEN Append(pubNotes, layer)
                          ELSE pubNotes
    /\ UNCHANGED <<nonStmVars, isSVC, availableLayers, lastStatus, maxExpectedLayer,
                   paused, maxTemporalLayerSeen, trackerBr, maxAvailNotified,
                   layeredOut, distanceOut, stmCalled, tempNotes>>

\* RemoveTracker(layer)
RemoveTracker ==
    /\ \E layer \in StmLayers :
          /\ trackers[layer]
          /\ trackers' = [trackers EXCEPT ![layer] = FALSE]
    /\ UNCHANGED <<nonStmVars, isSVC, availableLayers, lastStatus, maxExpectedLayer,
                   paused, maxTemporalLayerSeen, maxPublishedLayer, trackerBr,
                   maxAvailNotified, layeredOut, distanceOut, stmCalled, pubNotes, tempNotes>>

\* RemoveAllTrackers
RemoveAllTrackers ==
    /\ trackers' = [l \in StmLayers |-> FALSE]
    /\ availableLayers' = <<>>
    /\ lastStatus' = [l \in StmLayers |-> "none"]
    /\ maxExpectedLayer' = TrackInfoMaxLayer
    /\ paused' = FALSE
    /\ UNCHANGED <<nonStmVars, isSVC, maxTemporalLayerSeen, maxPublishedLayer, trackerBr,
                   maxAvailNotified, layeredOut, distanceOut, stmCalled, pubNotes, tempNotes>>

\* the OnStatusChanged callback AddTracker gives a tracker: the tracker of a
\* layer reports Active (addAvailableLayer) or Stopped (removeAvailableLayer)
OnStatusChanged ==
    /\ \E layer \in StmLayers, status \in {"active", "stopped"} :
          /\ trackers[layer]
          /\ lastStatus' = [lastStatus EXCEPT ![layer] = status]
          /\ IF status = "stopped"
             THEN /\ availableLayers' = RemoveAvailable(availableLayers, layer)
                  /\ maxAvailNotified' =
                        IF MaxOf(RemoveAvailable(availableLayers, layer)) # MaxOf(availableLayers)
                        THEN MaxOf(RemoveAvailable(availableLayers, layer))
                        ELSE maxAvailNotified
             ELSE /\ availableLayers' = AddAvailable(availableLayers, layer)
                  /\ maxAvailNotified' =
                        IF /\ ~HasSpatialLayer(availableLayers, layer)
                           /\ MaxOf(AddAvailable(availableLayers, layer)) = layer
                        THEN layer ELSE maxAvailNotified
    /\ UNCHANGED <<nonStmVars, isSVC, trackers, maxExpectedLayer, paused,
                   maxTemporalLayerSeen, maxPublishedLayer, trackerBr,
                   layeredOut, distanceOut, stmCalled, pubNotes, tempNotes>>

\* SetPaused(paused)
SetPaused ==
    /\ \E b \in BOOLEAN : paused' = b
    /\ UNCHANGED <<nonStmVars, isSVC, trackers, availableLayers, lastStatus,
                   maxExpectedLayer, maxTemporalLayerSeen, maxPublishedLayer, trackerBr,
                   maxAvailNotified, layeredOut, distanceOut, stmCalled, pubNotes, tempNotes>>

\* SetMaxExpectedSpatialLayer(layer)
SetMaxExpectedSpatialLayer ==
    /\ \E layer \in StmLayers : maxExpectedLayer' = layer
    /\ UNCHANGED <<nonStmVars, isSVC, trackers, availableLayers, lastStatus, paused,
                   maxTemporalLayerSeen, maxPublishedLayer, trackerBr,
                   maxAvailNotified, layeredOut, distanceOut, stmCalled, pubNotes, tempNotes>>

\* a manager that has been running: any trackers, layers and measurements
StmAnyInit ==
    /\ isSVC \in BOOLEAN
    /\ trackers \in [StmLayers -> BOOLEAN]
    /\ availableLayers \in {SortSlice(o) : o \in UNION {MapOrders(S) : S \in SUBSET StmLayers}}
    /\ lastStatus = [l \in StmLayers |->
                        IF HasSpatialLayer(availableLayers, l) THEN "active" ELSE "none"]
    /\ maxExpectedLayer \in InvalidLayerSpatial..DefaultMaxLayerSpatial
    /\ paused \in BOOLEAN
    /\ maxTemporalLayerSeen \in InvalidLayerTemporal..MaxBrTemporal
    /\ maxPublishedLayer = DefaultMaxLayerSpatial
    /\ trackerBr \in [StmLayers -> [BrTemporals -> BrValues]]
    /\ \A l \in StmLayers : ~trackers[l] => trackerBr[l] = NoBitrates[l]
    /\ maxAvailNotified = MaxOf(availableLayers)
    /\ layeredOut = NoLayered
    /\ distanceOut = NoDistance
    /\ stmCalled = "none"
    /\ pubNotes = <<>>
    /\ tempNotes = <<>>

\* getLayeredBitrateLocked, first loop: each tracker's bitrates if its layer
\* is available, the trackers returning read
ReadTrackers(read) ==
    [i \in StmLayers |-> [j \in BrTemporals |->
        IF trackers[i] /\ HasSpatialLayer(availableLayers, i) THEN read[i][j] ELSE 0]]

OwnBitrates == ReadTrackers(trackerBr)

\* br[0][j] + ... + br[i-1][j]
RECURSIVE SumBelow(_, _, _)
SumBelow(br, i, j) == IF i = 0 THEN 0 ELSE br[i - 1][j] + SumBelow(br, i - 1, j)

Cumulative_none(br) == br

\* getLayeredBitrateLocked, SVC: from the top row down, a nonzero entry gets
\* the entries below it added; the rows below are still as measured then
Cumulative(br) ==
    [i \in StmLayers |-> [j \in BrTemporals |->
        IF i >= 1 /\ br[i][j] # 0 THEN br[i][j] + SumBelow(br, i, j) ELSE br[i][j]]]

\* getLayeredBitrateLocked: the matrix returned
LayeredBitrateOf(read) ==
    IF isSVC THEN Cumulative(ReadTrackers(read)) ELSE ReadTrackers(read)

LayeredBitrate == LayeredBitrateOf(trackerBr)

\* GetLayeredBitrate
GetLayeredBitrate ==
    /\ stmCalled = "none"
    /\ stmCalled' = "GetLayeredBitrate"
    /\ layeredOut' = [al |-> availableLayers, br |-> LayeredBitrate]
    /\ UNCHANGED <<nonStmVars, isSVC, trackers, availableLayers, lastStatus,
                   maxExpectedLayer, paused, maxTemporalLayerSeen, maxPublishedLayer,
                   trackerBr, maxAvailNotified, distanceOut, pubNotes, tempNotes>>

\* updateMaxTemporalLayerSeen: the highest temporal column with a nonzero
\* bitrate in some row, scanning from the top column down
RECURSIVE ScanTemporal(_, _, _)
ScanTemporal(brs, tl, sl) ==
    IF tl < 0 THEN InvalidLayerTemporal
    ELSE IF sl < 0 THEN ScanTemporal(brs, tl - 1, DefaultMaxLayerSpatial)
    ELSE IF brs[sl][tl] # 0 THEN tl
    ELSE ScanTemporal(brs, tl, sl - 1)

\* bitrateReporter, one tick: the trackers are read through GetLayeredBitrate
\* and updateMaxTemporalLayerSeen takes the result
BitrateReport ==
    /\ \E read \in [StmLayers -> [BrTemporals -> BrValues]] :
          LET seen == ScanTemporal(LayeredBitrateOf(read), MaxBrTemporal,
                                   DefaultMaxLayerSpatial)
          IN  /\ maxTemporalLayerSeen' = IF Notify(maxTemporalLayerSeen, seen) THEN seen
                                         ELSE maxTemporalLayerSeen
              /\ tempNotes' = IF Notify(maxTemporalLayerSeen, seen)
                              THEN Append(tempNotes, seen) ELSE tempNotes
    /\ UNCHANGED <<nonStmVars, isSVC, trackers, availableLayers, lastStatus,
                   maxExpectedLayer, paused, maxPublishedLayer, trackerBr,
                   maxAvailNotified, layeredOut, distanceOut, stmCalled, pubNotes>>

\* DistanceToDesired: the highest layer with a nonzero bitrate, scanning from
\* the top row and the top column down
RECURSIVE ScanBitrates(_, _, _)
ScanBitrates(brs, sl, tl) ==
    IF sl < 0 THEN InvalidLayer
    ELSE IF tl < 0 THEN ScanBitrates(brs, sl - 1, MaxBrTemporal)
    ELSE IF brs[sl][tl] # 0 THEN [spatial |-> sl, temporal |-> tl]
    ELSE ScanBitrates(brs, sl, tl - 1)

\* DistanceToDesired: a layer seen by a tracker above the measured ones counts
RECURSIVE SeenLayers(_, _)
SeenLayers(al, maxL) ==
    IF al = <<>> THEN maxL
    ELSE SeenLayers(Tail(al),
            IF Head(al) > maxL.spatial
            THEN [spatial |-> Head(al), temporal |-> maxTemporalLayerSeen]
            ELSE maxL)

\* DistanceToDesired: maxLayer
MaxAvailableLayer ==
    SeenLayers(availableLayers,
               ScanBitrates(LayeredBitrate, DefaultMaxLayerSpatial, MaxBrTemporal))

DistanceGuard_never == FALSE

\* DistanceToDesired: the early return
DistanceGuard == paused \/ maxExpectedLayer < 0 \/ maxTemporalLayerSeen < 0

\* DistanceToDesired: the value returned, float64(distance) / float64(seen + 1)
Distance ==
    IF DistanceGuard THEN NoDistance
    ELSE LET maxL == MaxAvailableLayer
             adj == IF IsValid(maxL) THEN maxL ELSE [spatial |-> 0, temporal |-> 0]
             d == (maxExpectedLayer - adj.spatial) * (maxTemporalLayerSeen + 1)
                     + (maxTemporalLayerSeen - adj.temporal)
         IN  [num |-> IF IsValid(maxL) THEN d ELSE d + 1,
              den |-> maxTemporalLayerSeen + 1]

\* DistanceToDesired
DistanceToDesired ==
    /\ stmCalled = "none"
    /\ stmCalled' = "DistanceToDesired"
    /\ distanceOut' = Distance
    /\ UNCHANGED <<nonStmVars, isSVC, trackers, availableLayers, lastStatus,
                   maxExpectedLayer, paused, maxTemporalLayerSeen, maxPublishedLayer,
                   trackerBr, maxAvailNotified, layeredOut, pubNotes, tempNotes>>

----------------------------------------------------------------------------
\* StreamTrackerManager: sender reports

SrInit ==
    /\ senderReports = [l \in StmLayers |-> NoReport]
    /\ srDelivered = {}
    /\ refOut = NoAnswer

SrIdle == SrInit

\* SetRTCPSenderReportData(layer, senderReport)
SetRTCPSenderReportData ==
    /\ refOut = NoAnswer
    /\ \E layer \in SrLayers, ntp \in NtpTimes, rtp \in RtpTimes :
          IF layer < 0 \/ layer >= DefaultMaxLayerSpatial + 1
          THEN UNCHANGED <<senderReports, srDelivered>>
          ELSE /\ senderReports' = [senderReports EXCEPT ![layer] = [ntp |-> ntp, rtp |-> rtp]]
               /\ srDelivered' = srDelivered \cup {layer}
    /\ UNCHANGED <<nonSrVars, refOut>>

\* uint32(x) of an int64 x, as <<high, low>>
ToU32(x) == <<(x \div 65536) % 65536, x % 65536>>

\* uint32 addition on <<high, low>>
Plus32(a, b) == <<(a[1] + b[1] + ((a[2] + b[2]) \div 65536)) % 65536, (a[2] + b[2]) % 65536>>

\* int64 division, which truncates toward zero
TruncDiv(a, b) == IF a >= 0 THEN a \div b ELSE -((-a) \div b)

\* senderReports[layer], nil outside the array
ReportOf(layer) == IF layer < DefaultMaxLayerSpatial + 1 THEN senderReports[layer] ELSE NoReport

MappedTS_noNormalize(ts, srLayer, srRef) == Plus32(ts, Sub32(srRef.rtp, srLayer.rtp))

\* GetReferenceLayerRTPTimestamp: ts + (srRef.RTPTimestamp - normalizedTS)
MappedTS(ts, srLayer, srRef) ==
    LET ntpDiff == srRef.ntp - srLayer.ntp
        rtpDiff == TruncDiv(ntpDiff * clockRate, NtpUnitsPerSecond)
        normalizedTS == Plus32(srLayer.rtp, ToU32(rtpDiff))
    IN  Plus32(ts, Sub32(srRef.rtp, normalizedTS))

NotAvailable_nilOnly(sr) == sr = NoReport

\* srLayer == nil || srLayer.NTPTimestamp == 0
NotAvailable(sr) == sr = NoReport \/ sr.ntp = 0

\* GetReferenceLayerRTPTimestamp(ts, layer, referenceLayer), asked once, after
\* the reports
GetReferenceLayerRTPTimestamp ==
    /\ refOut = NoAnswer
    /\ \E ts \in AskedTs, layer \in SrLayers, referenceLayer \in SrLayers :
          refOut' = [asked |-> ts, layer |-> layer, ref |-> referenceLayer,
                     err |-> IF layer < 0 \/ referenceLayer < 0 THEN "invalid layer"
                             ELSE IF NotAvailable(ReportOf(layer)) THEN "layer not available"
                             ELSE IF NotAvailable(ReportOf(referenceLayer))
                                  THEN "reference layer not available"
                             ELSE "none",
                     ts |-> IF \/ layer < 0 \/ referenceLayer < 0
                               \/ NotAvailable(ReportOf(layer))
                               \/ NotAvailable(ReportOf(referenceLayer))
                            THEN <<0, 0>>
                            ELSE MappedTS(ts, ReportOf(layer), ReportOf(referenceLayer))]
    /\ UNCHANGED <<nonSrVars, senderReports, srDelivered>>

----------------------------------------------------------------------------
\* WebRTCReceiver and StreamTrackerManager: the maximum published layer

MpInit ==
    /\ mpPc = [s \in Subs |-> "idle"]
    /\ mpTracks = {}
    /\ mpRun = {}
    /\ dtLayer = [s \in Subs |-> NotTold]

MpIdle == MpInit

\* AddDownTrack up to the notifications: the receiver is open, the track is
\* given GetMaxPublishedLayer()
NotifyDownTrack ==
    /\ \E s \in Subs :
          /\ mpPc[s] = "idle"
          /\ dtLayer' = [dtLayer EXCEPT ![s] = maxPublishedLayer]
          /\ mpPc' = [mpPc EXCEPT ![s] = "store"]
    /\ UNCHANGED <<nonMpVars, mpTracks, mpRun>>

\* AddDownTrack: downTrackSpreader.Store(track), return nil
StoreTrack ==
    /\ \E s \in Subs :
          /\ mpPc[s] = "store"
          /\ mpTracks' = mpTracks \cup {s}
          /\ mpPc' = [mpPc EXCEPT ![s] = "done"]
    /\ UNCHANGED <<nonMpVars, mpRun, dtLayer>>

\* one `go listener.OnMaxPublishedLayerChanged(layer)` started by AddTracker
\* runs: every DownTrack the spreader holds is given the layer
OnMaxPublishedLayerChanged ==
    /\ \E i \in DOMAIN pubNotes \ mpRun :
          /\ mpRun' = mpRun \cup {i}
          /\ dtLayer' = [s \in Subs |-> IF s \in mpTracks THEN pubNotes[i] ELSE dtLayer[s]]
    /\ UNCHANGED <<nonMpVars, mpPc, mpTracks>>

----------------------------------------------------------------------------
\* the parts of the program a specification leaves at rest
RestIdle == UpIdle /\ DtsIdle /\ Vp9Idle /\ StmIdle /\ SrIdle /\ MpIdle

Init == SigInit /\ RedIdle /\ RtIdle /\ RcvIdle /\ RestIdle

Next ==
    \/ WriteMessage
    \/ Close
    \/ CloseReturn
    \/ WriteStart
    \/ SendOK
    \/ SendFail
    \/ GiveUp
    \/ AfterFail
    \/ AfterOK
    \/ CopyFrame
    \/ RemoteClose

Spec == Init /\ [][Next]_vars

\* the signal relay at rest while the RED encoder runs
SigIdle ==
    /\ CloseOnFailure = TRUE /\ BlockOnClose = TRUE
    /\ seq = 0 /\ queue = <<>> /\ writing = FALSE /\ draining = FALSE
    /\ streamErr = "nil"
    /\ chan = <<>>
    /\ wpc = "idle" /\ interval = MinRetryInterval /\ elapsed = 0
    /\ close = FALSE /\ n = 0 /\ msg = NoFrame /\ err = FALSE
    /\ writers = 0
    /\ accepted = 0 /\ wmRes = "none"
    /\ cpc = "none"
    /\ rseq = 0 /\ rpc = "reading" /\ emitted = <<>>
    /\ trimmed = FALSE
    /\ lastExit = [how |-> "none", draining |-> FALSE]

RedSpecInit == SigIdle /\ RedInit /\ RtIdle /\ RcvIdle /\ RestIdle

RedNext ==
    \/ RedAddDownTrack
    \/ RedDeleteDownTrack
    \/ ForwardRTP

RedSpec == RedSpecInit /\ [][RedNext]_vars

RedRTInit == SigIdle /\ RedIdle /\ RtInit /\ RcvIdle /\ RestIdle

RedRTNext ==
    \/ RtEncode
    \/ RtLose
    \/ RtForwardRTP

RedRTSpec == RedRTInit /\ [][RedRTNext]_vars

RedUnorderInit == SigIdle /\ RedIdle /\ RtUnorderInit /\ RcvIdle /\ RestIdle

RedUnorderNext == RtForwardAny

RedUnorderSpec == RedUnorderInit /\ [][RedUnorderNext]_vars

RcvSpecInit == SigIdle /\ RedIdle /\ RtIdle /\ RcvInit /\ RestIdle

\* forwarding: the loops of the layers, subscribers coming and going, close
RcvFwdNext ==
    \/ AddDownTrack
    \/ AddNotify
    \/ AddStore
    \/ DeleteDownTrack
    \/ LoopRead
    \/ WriteRTP
    \/ LoopNext
    \/ LoopEOF
    \/ LoopDefer
    \/ CloseStore
    \/ CloseTracks
    \/ CloseDownTracks
    \/ CloseWrappers
    \/ LoopAfter

RcvFwdSpec == RcvSpecInit /\ [][RcvFwdNext]_vars

\* close: the loops end without a packet; subscribers and wrappers race with it
RcvCloseNext ==
    \/ AddDownTrack
    \/ AddNotify
    \/ AddStore
    \/ DeleteDownTrack
    \/ WrapperAddDownTrack
    \/ GetEnter
    \/ GetCreate
    \/ GetSetWriter
    \/ GetReturn
    \/ LoopEOF
    \/ LoopDefer
    \/ CloseStore
    \/ CloseTracks
    \/ CloseDownTracks
    \/ CloseWrappers
    \/ LoopAfter

RcvCloseSpec == RcvSpecInit /\ [][RcvCloseNext]_vars

\* wrapper creation: concurrent getters and the close sequence
RcvGetNext ==
    \/ GetEnter
    \/ GetCreate
    \/ GetSetWriter
    \/ GetReturn
    \/ LoopEOF
    \/ LoopDefer
    \/ CloseStore
    \/ CloseTracks
    \/ CloseDownTracks
    \/ CloseWrappers
    \/ LoopAfter

RcvGetSpec == RcvSpecInit /\ [][RcvGetNext]_vars

\* everything but the named part at rest
AllIdle == SigIdle /\ RedIdle /\ RtIdle /\ RcvIdle

UpSpecInit == AllIdle /\ UpInit /\ DtsIdle /\ Vp9Idle /\ StmIdle /\ SrIdle /\ MpIdle

UpNext ==
    \/ AddUpTrack
    \/ UpClose

UpSpec == UpSpecInit /\ [][UpNext]_vars

DtsSpecInit == AllIdle /\ UpIdle /\ DtsInit /\ Vp9Idle /\ StmIdle /\ SrIdle /\ MpIdle

\* the map and its shadow
DtsNext ==
    \/ Store
    \/ Free
    \/ ResetAndGetDownTracks

DtsSpec == DtsSpecInit /\ [][DtsNext]_vars

\* Broadcast running while the map changes
BcNext ==
    \/ Store
    \/ Free
    \/ BroadcastStart
    \/ SeqWrite
    \/ WorkerClaim
    \/ WorkerWrite
    \/ BroadcastEnd

BcSpec == DtsSpecInit /\ [][BcNext]_vars

\* the selector in any of its states, fed any packet
Vp9SpecInit == AllIdle /\ UpIdle /\ DtsIdle /\ Vp9Init /\ StmIdle /\ SrIdle /\ MpIdle

Vp9Next == Select

Vp9Spec == Vp9SpecInit /\ [][Vp9Next]_vars

\* the manager's trackers and the layers they report
StmSpecInit == AllIdle /\ UpIdle /\ DtsIdle /\ Vp9Idle /\ StmInit /\ SrIdle /\ MpIdle

StmNext ==
    \/ AddTracker
    \/ RemoveTracker
    \/ RemoveAllTrackers
    \/ OnStatusChanged
    \/ SetPaused
    \/ SetMaxExpectedSpatialLayer

StmSpec == StmSpecInit /\ [][StmNext]_vars

\* the manager's queries, asked in any state the manager can be in
StmQueryInit == AllIdle /\ UpIdle /\ DtsIdle /\ Vp9Idle /\ StmAnyInit /\ SrIdle /\ MpIdle

StmQueryNext ==
    \/ GetLayeredBitrate
    \/ DistanceToDesired

StmQuerySpec == StmQueryInit /\ [][StmQueryNext]_vars

\* trackers added and removed, layers starting and stopping, bitrates reported
StmMaxNext ==
    \/ AddTracker
    \/ RemoveTracker
    \/ RemoveAllTrackers
    \/ OnStatusChanged
    \/ BitrateReport

StmMaxSpec == StmSpecInit /\ [][StmMaxNext]_vars

\* sender reports stored and timestamps mapped, in any order
SrSpecInit == AllIdle /\ UpIdle /\ DtsIdle /\ Vp9Idle /\ StmIdle /\ SrInit /\ MpIdle

SrNext ==
    \/ SetRTCPSenderReportData
    \/ GetReferenceLayerRTPTimestamp

SrSpec == SrSpecInit /\ [][SrNext]_vars

\* DownTracks added while trackers are added and the listener is told
MpSpecInit == AllIdle /\ UpIdle /\ DtsIdle /\ Vp9Idle /\ StmInit /\ SrIdle /\ MpInit

MpNext ==
    \/ AddTracker
    \/ NotifyDownTrack
    \/ StoreTrack
    \/ OnMaxPublishedLayerChanged

MpSpec == MpSpecInit /\ [][MpNext]_vars

\* a step of the write() goroutine
WriterStep == WriteStart \/ SendOK \/ SendFail \/ GiveUp \/ AfterFail \/ AfterOK

\* a sink whose Close() blocks, as StartParticipantSignal makes it
FairInit == Init /\ BlockOnClose = TRUE

\* write() is scheduled and every step of it ends: a Send returns at the latest
\* when its timeout expires, and a goroutine waiting for the mutex gets it; a
\* Close() waiting for the stream's context wakes up when it is done
FairSpec ==
    /\ FairInit /\ [][Next]_vars
    /\ WF_vars(WriterStep)
    /\ WF_vars(CloseReturn)

----------------------------------------------------------------------------
(***************************************************************************)
(* Signal relay: properties                                                *)
(***************************************************************************)

\* C1: messages accepted by WriteMessage in the order 1, 2, ... reach the
\* peer in that order: whenever the reader has emitted two of them, the one
\* accepted first was emitted first.
C1_FifoOrder ==
    \A i, j \in DOMAIN emitted : emitted[i] < emitted[j] => i < j

\* the reader emitted both messages in order, the second out of a frame that
\* repeated the first
C1_Witness ==
    /\ emitted = <<1, 2>>
    /\ trimmed
    /\ chan = <<>>

\* C2: the reader never emits the same message twice, whatever was sent
\* again.
C2_AtMostOnce ==
    \A i, j \in DOMAIN emitted : i # j => emitted[i] # emitted[j]

\* the frame that carried message 1 was delivered again (its Send had been
\* reported as failed) and the reader took nothing from it
C2_Witness ==
    /\ trimmed
    /\ emitted = <<1>>
    /\ rseq = 1
    /\ accepted = 1

\* a step of the copy loop: the reader takes the frame at the head of the stream
CopyStep == rpc = "reading" /\ chan # <<>> /\ chan' = Tail(chan)

\* C3: what Read makes of each frame: ahead of the counter, an error, no
\* message and the counter as it was; behind it, the first (counter - seq)
\* messages trimmed (all of them if the batch is shorter) and the rest
\* emitted; level with it, the whole batch emitted; and the counter grown by
\* the number of messages emitted.
C3_ReaderContract ==
    [][CopyStep =>
        LET f   == Head(chan)
            len == Len(f.msgs)
            new == Len(emitted') - Len(emitted)
        IN  /\ Len(emitted') >= Len(emitted)
            /\ \A i \in 1..Len(emitted) : emitted'[i] = emitted[i]
            /\ rseq' = rseq + new
            /\ rseq < f.seq => rpc' = "dropped" /\ new = 0
            /\ rseq >= f.seq => rpc' # "dropped"
            /\ rseq = f.seq => new = len
            /\ (rseq > f.seq /\ rseq - f.seq >= len) => new = 0
            /\ (rseq > f.seq /\ rseq - f.seq < len) => new = len - (rseq - f.seq)
            /\ \A i \in 1..new : emitted'[Len(emitted) + i] = f.msgs[len - new + i]
      ]_vars

\* the reader met a frame ahead of its counter and stopped with the error
C3_Witness ==
    /\ rpc = "dropped"
    /\ rseq = 0
    /\ emitted = <<>>
    /\ seq = MaxMsgs

C5_Original == seq = accepted

\* C5: seq counts the messages that have left the queue (sent in a batch or
\* discarded), so that seq plus the length of the queue is the number of
\* messages ever enqueued; and a successful send advances seq by the length
\* of the batch that was sent.
C5_SeqCount ==
    /\ [](seq + Len(queue) = accepted)
    /\ [][(wpc = "ok" /\ wpc' # "ok") => seq' = seq + Len(msg.msgs)]_vars

\* one message has been sent, a second one waits in the queue
C5_Witness == seq = 1 /\ queue = <<2>> /\ accepted = 2 /\ wpc = "send"

\* C6: the sink closes its stream with a nil cause only in the step that
\* follows the successful send of a close frame carrying the whole queue, or
\* in the step in which the writer gives up, and the queue is empty then; a
\* Close() that blocks has not returned while the stream is open; and it
\* returns in the end.
C6_Drain ==
    /\ [][(streamErr = "nil" /\ streamErr' = "ErrStreamClosed") =>
            /\ draining
            /\ queue' = <<>>
            /\ \/ wpc = "ok" /\ msg.close /\ msg.msgs = queue
               \/ wpc = "giveup"]_vars
    /\ []((BlockOnClose /\ cpc = "returned") => streamErr # "nil")
    /\ (cpc = "blocked" ~> cpc = "returned")

\* a blocking Close() returned after the close frame with both messages went out
C6_Witness ==
    /\ BlockOnClose
    /\ cpc = "returned"
    /\ lastExit.how = "closeSent"
    /\ seq = MaxMsgs
    /\ streamErr = "ErrStreamClosed"

\* C7: write() starts with MinRetryInterval; a failed attempt doubles the
\* interval up to MaxRetryInterval; a successful send sets it back to
\* MinRetryInterval; it is never outside the two.
C7_Backoff ==
    /\ [](MinRetryInterval <= interval /\ interval <= MaxRetryInterval)
    /\ [][(wpc = "start" /\ wpc' = "send") => interval' = MinRetryInterval]_vars
    /\ [][(wpc = "send" /\ wpc' = "failed") =>
            interval' = Min2(2 * interval, MaxRetryInterval)]_vars
    /\ [][(wpc = "ok" /\ wpc' = "send") => interval' = MinRetryInterval]_vars

\* after enough failures in a row the interval stands at MaxRetryInterval
C7_Witness == wpc = "failed" /\ interval = MaxRetryInterval /\ err

----------------------------------------------------------------------------
(***************************************************************************)
(* RED encoder claims                                                      *)
(***************************************************************************)

\* packet k of the source stream as it was forwarded
Fwd(k) == SrcPkt(k, srcLen[k], tsGapAt)

\* the packets broadcast before the last one, in order
PrevFwd ==
    [i \in 1..(Len(forwarded) - 1) |-> Fwd(forwarded[i])]

\* every packet was broadcast with a larger sequence number than the one before
InOrder == \A i \in 1..(Len(forwarded) - 1) : forwarded[i] < forwarded[i + 1]

\* prev is d sequence numbers or fewer behind pkt
SnBehind(pkt, prev, d) == prev.sn # pkt.sn /\ Sub16(pkt.sn, prev.sn) <= d

\* the packets broadcast before the last one that are one or two sequence
\* numbers behind it
NearPrev ==
    LET Near(p) == SnBehind(redOut.pkt, p, maxRedCount)
    IN  SelectSeq(PrevFwd, Near)

SmallTsSteps ==
    \A i \in 1..Len(NearPrev) : ~AtLeast14(Sub32(redOut.pkt.ts, NearPrev[i].ts))

\* the last RED payload carries exactly the blocks ps, then the primary
CarriesRed(ps) ==
    /\ Len(redOut.hdrs) = Len(ps)
    /\ \A i \in 1..Len(ps) :
          Sub32(redOut.pkt.ts, <<0, redOut.hdrs[i].tsOff>>) = ps[i].ts
    /\ redOut.data = ConcatPayloads(Append(ps, redOut.pkt))

\* C9 as stated: for packets forwarded in increasing sequence-number order
\* with small timestamp steps, the RED packet built for sequence number s
\* carries exactly the previously forwarded packets with sequence number s-2
\* or s-1, oldest first, each with its payload and timestamp, then the primary.
C9_Original ==
    (redOut.sent /\ InOrder /\ SmallTsSteps) => CarriesRed(NearPrev)

\* C9: the same, provided the primary, the redundancy and the headers fit the
\* buffer of mtuSize bytes; if they do not the packet carries the primary alone.
C9_Redundancy ==
    (redOut.sent /\ InOrder /\ SmallTsSteps) =>
        IF redOut.pkt.len + 1 + RedSize(NearPrev) <= mtuSize
        THEN CarriesRed(NearPrev)
        ELSE CarriesRed(<<>>)

\* three packets forwarded in order across the sequence-number wrap, the
\* third carrying the two before it; and a packet after a lost one
C9_Witness ==
    /\ redOut.sent /\ InOrder /\ SmallTsSteps
    /\ forwarded = <<0, 1, 2>>
    /\ redOut.pkt.sn = 0
    /\ Len(redOut.hdrs) = 2
    /\ redOut.data = <<[id |-> 0, off |-> 0, len |-> 12],
                       [id |-> 1, off |-> 0, len |-> 1030],
                       [id |-> 2, off |-> 0, len |-> 12]>>

\* the entries of the history the last packet met
HistPkts ==
    LET NotNil(p) == p # NoPkt
    IN  SelectSeq(redOut.hist, NotNil)

\* the entries of the history d sequence numbers or fewer behind the packet
\* and less than 2^14 timestamp units before it
HistWithin(d) ==
    LET Near(p) == /\ SnBehind(redOut.pkt, p, d)
                   /\ ~AtLeast14(Sub32(redOut.pkt.ts, p.ts))
    IN  SelectSeq(HistPkts, Near)

\* C10 as stated: the encoder collects as redundancy the packets of its
\* history within 16 sequence numbers and within 16384 timestamp units of the
\* current packet, and no others.
C10_Original == redOut.sent => redOut.redPkts = HistWithin(16)

\* C10: the encoder collects as redundancy the packets of its history at most
\* maxRedCount = 2 sequence numbers behind the current packet and less than
\* 16384 timestamp units before it, and no others.
C10_Collect == redOut.sent => redOut.redPkts = HistWithin(maxRedCount)

\* a packet that meets a history of two, one entry three sequence numbers
\* behind it and left out, the other two behind and collected
C10_Witness ==
    /\ redOut.sent
    /\ redOut.pkt.id = 3
    /\ Len(HistPkts) = 2 /\ HistPkts[1].id = 0 /\ HistPkts[2].id = 1
    /\ Len(redOut.redPkts) = 1 /\ redOut.redPkts[1].id = 1

\* the collected redundancy of the last packet, its headers and the primary
\* need more than the buffer holds
ExceedsMtu == redOut.pkt.len + 1 + RedSize(redOut.redPkts) > mtuSize

\* C11: if the primary payload with all collected redundancy blocks and their
\* headers exceeds the 1500-byte buffer, the RED packet sent contains the
\* primary only: no block header, the one-byte final header, the primary's
\* payload.
C11_DropAll ==
    (redOut.sent /\ ExceedsMtu) =>
        /\ redOut.hdrs = <<>>
        /\ redOut.data = Payload(redOut.pkt)
        /\ redOut.size = redOut.pkt.len + 1

\* two packets collected, the three payloads too large together
C11_Witness ==
    /\ redOut.sent /\ ExceedsMtu
    /\ Len(redOut.redPkts) = 2
    /\ redOut.pkt.len = 12
    /\ redOut.hdrs = <<>>

\* the history packets the last RED packet includes as redundancy
Included == SubSeq(redOut.redPkts, 1, Len(redOut.hdrs))

\* C12: every RED packet produced includes at most maxRedCount history
\* packets and its payload size is at most the primary payload length plus
\* the lengths of the included packets, plus 1 byte for the final header and
\* 4 bytes for each of maxRedCount redundancy headers.
C12_Overhead ==
    redOut.sent =>
        /\ Len(redOut.hdrs) <= maxRedCount
        /\ redOut.size <= redOut.pkt.len + (RedSize(Included) - 4 * Len(Included))
                             + 1 + 4 * maxRedCount

\* a packet with two redundancy blocks, the bound met with equality
C12_Witness ==
    /\ redOut.sent
    /\ Len(redOut.hdrs) = 2
    /\ redOut.pkt.len = 1030
    /\ redOut.size = 1030 + 12 + 12 + 1 + 4 * maxRedCount

\* the last packet is older than every entry of the history it met
OlderThanHist ==
    /\ HistPkts # <<>>
    /\ \A i \in 1..Len(HistPkts) : Sub16(redOut.pkt.sn, HistPkts[i].sn) >= 32768

\* C13 as stated: a packet whose sequence number is older than every entry of
\* the history is not inserted, leaves the history unchanged and is forwarded
\* with no redundancy blocks.
C13_Original ==
    (redOut.sent /\ OlderThanHist) =>
        /\ pktBuff = redOut.hist
        /\ redOut.hdrs = <<>>

\* C13: a packet older than every entry of a full history leaves the history
\* unchanged; met by a history with an empty entry it is inserted before the
\* newer entries; either way it is forwarded with no redundancy blocks.
C13_OlderPkt ==
    (redOut.sent /\ OlderThanHist) =>
        /\ redOut.hdrs = <<>>
        /\ IF Len(HistPkts) = maxRedCount
           THEN pktBuff = redOut.hist
           ELSE pktBuff = <<redOut.pkt>> \o HistPkts

\* a full history of the packets 2 and 3, then the older packet 1 arrives
C13_Witness ==
    /\ redOut.sent /\ OlderThanHist
    /\ redOut.pkt.id = 1
    /\ Len(HistPkts) = maxRedCount
    /\ HistPkts[1].id = 2 /\ HistPkts[2].id = 3
    /\ pktBuff = redOut.hist

----------------------------------------------------------------------------
(***************************************************************************)
(* RED round trip claim                                                    *)
(***************************************************************************)

\* the primary packets as they were fed to the encoder
RtOriginals ==
    [i \in 1..Len(rtSent) |->
        LET p == RtPkt(i - 1, rtSent, rtTsStep)
        IN  [sn |-> p.sn, ts |-> p.ts, data |-> Payload(p)]]

\* every RED packet has met its fate, the first and the last arrived, and no
\* rtR + 1 packets in a row were lost
RecoverableLoss ==
    /\ rtWire = NoRed
    /\ rtSent # <<>>
    /\ ~rtDrop[1] /\ ~rtDrop[Len(rtDrop)]
    /\ \A i \in 1..(Len(rtDrop) - rtR) : \E j \in i..(i + rtR) : ~rtDrop[j]

\* C8 as stated: primary packets sent in order and RED-encoded with r blocks
\* of redundancy, the RED packets arriving in order with fewer than r + 1 lost
\* in a row in the middle, are delivered downstream exactly as they were, in
\* order, each with its sequence number, timestamp and payload.
C8_RoundTrip == RecoverableLoss => rtRecv = RtOriginals

\* two packets, one block of redundancy, nothing lost, every block within the
\* buffer: the second packet comes out with another payload than it went in
C8_Witness ==
    /\ rtR = 1 /\ rtTsStep = TsStep
    /\ rtSent = <<1030, 12>>
    /\ rtDrop = <<FALSE, FALSE>>
    /\ rtWire = NoRed
    /\ Len(rtRecv) = 2
    /\ rtRecv[2].sn = RtOriginals[2].sn
    /\ rtRecv[2].data = <<[id |-> 0, off |-> 6, len |-> 1024],
                          [id |-> 1, off |-> 0, len |-> 12]>>

----------------------------------------------------------------------------
(***************************************************************************)
(* RED primary receiver claims                                             *)
(***************************************************************************)

\* the sequence numbers sent downstream, in order
RecvSns == [i \in 1..Len(rtRecv) |-> rtRecv[i].sn]

\* the sequence number of the k-th generated packet
RtSn(k) == (RtSnBase + k) % 65536

\* no RED packet on its way and none lost so far
NoLoss == rtWire = NoRed /\ \A i \in 1..Len(rtDrop) : ~rtDrop[i]

\* C14: when RED packets that carry redundancy arrive in order without loss,
\* every primary packet is sent downstream exactly once and no redundancy
\* block already delivered is sent again.
C14_OnlyOnce ==
    NoLoss => RecvSns = [i \in 1..Len(rtSent) |-> RtSn(i - 1)]

\* three packets with two blocks of redundancy each, all arrived
C14_Witness ==
    /\ NoLoss
    /\ rtR = maxRedCount
    /\ Len(rtSent) = 3
    /\ Len(rtWire.hdrs) = 0
    /\ rtFed = 3
    /\ RecvSns = <<RtSn(0), RtSn(1), RtSn(2)>>

\* the step hands the receiver a RED packet whose primary is older than the
\* newest it has received
UnorderStep ==
    /\ rtFed' = rtFed + 1
    /\ rtLastSeq # -1
    /\ Sub16(rtLastSeq, RtSn(rtLastIn')) > 0
    /\ Sub16(rtLastSeq, RtSn(rtLastIn')) < 32768

\* the blocks of the RED packet handed over in the step that have not been
\* delivered before it
NewBlocks ==
    LET red == GenerateRedPkt(rtLastIn', rtSent, rtTsStep, rtR)
        New(b) == b.sn \notin rtDelivered
    IN  SelectSeq(ExtractRedundancy(red), New)

\* C15 as stated: an out-of-order RED packet whose primary is older than what
\* has been delivered is forwarded as a single primary packet: exactly one
\* packet is sent for it and none of its redundancy blocks.
C15_Original ==
    [][UnorderStep =>
          /\ Len(rtRecv') = Len(rtRecv) + 1
          /\ rtRecv'[Len(rtRecv')].sn = RtSn(rtLastIn')]_vars

\* C15: an out-of-order RED packet always has its primary sent, last; one 10
\* or more sequence numbers behind the newest received is sent as that single
\* packet; one at most maxRedCount behind has its redundancy blocks not yet
\* delivered sent before the primary.
C15_Unorder ==
    [][UnorderStep =>
          LET behind == Sub16(rtLastSeq, RtSn(rtLastIn'))
              primary == ExtractPrimary(GenerateRedPkt(rtLastIn', rtSent, rtTsStep, rtR))
          IN  /\ rtRecv'[Len(rtRecv')] = primary
              /\ behind >= 10 => rtRecv' = Append(rtRecv, primary)
              /\ behind <= maxRedCount => rtRecv' = rtRecv \o NewBlocks \o <<primary>>]_vars

\* packet 5 arrives first, then packet 3 with the blocks 1 and 2
C15_Witness ==
    /\ rtR = maxRedCount
    /\ rtFed = 2
    /\ rtLastIn = 3
    /\ rtLastSeq = RtSn(5)
    /\ RecvSns = <<RtSn(5), RtSn(1), RtSn(2), RtSn(3)>>

----------------------------------------------------------------------------
C18_RanOnce ==
    /\ closeRuns <= 1
    /\ stmClosed <= 1
    /\ onClosed <= 1
    /\ wrClosed <= 1
    /\ \A s \in Subs : dtClosed[s] <= 1
    /\ closeOnce = "done" =>
          /\ closeRuns = 1
          /\ rcvClosed
          /\ stmClosed = 1
          /\ onClosed = 1
          /\ \A s \in Subs : dtClosed[s] = (IF s \in closeList THEN 1 ELSE 0)
    /\ (\A l \in Layers : loopPc[l] = "done") => closeOnce = "done"

C18_ClosesAll ==
    /\ stmClosed' # stmClosed => closeList' = downTracks /\ downTracks' = {}
    /\ closeRuns' # closeRuns =>
          /\ (wrapper.primary # 0 \/ wrapper.red # 0) => wrClosed' = 1
          /\ wrDownTracks' = {}

C18_CloseOnce == [](C18_RanOnce) /\ [][C18_ClosesAll]_vars

\* both loops have ended; the sequence ran once and closed two DownTracks and
\* an installed wrapper
C18_Witness ==
    /\ \A l \in Layers : loopPc[l] = "done"
    /\ closeRuns = 1
    /\ closeList = Subs
    /\ \A s \in Subs : dtClosed[s] = 1
    /\ wrapper.red # 0
    /\ wrClosed = 1

\* C19: AddDownTrack on a closed receiver is rejected with ErrReceiverClosed
\* and the DownTrack is neither stored in the spreader nor notified; the same
\* holds for AddDownTrack on a closed RED wrapper.
C19_Rejected ==
    [][/\ (addCalls' # addCalls /\ rcvClosed) =>
             /\ \E s \in Subs :
                   addRes' = [addRes EXCEPT ![s] = "ErrReceiverClosed"]
             /\ addPc' = addPc
             /\ downTracks' = downTracks
             /\ dtNotified' = dtNotified
       /\ wrClosed > 0 =>
             /\ wrDownTracks' = wrDownTracks
             /\ wrAddRes' \in {wrAddRes, "ErrReceiverClosed"}]_vars

\* one call on the closed receiver and one on its closed wrapper were rejected
C19_Witness ==
    /\ rcvClosed
    /\ addRes["s1"] = "ErrReceiverClosed"
    /\ dtNotified["s1"] = 0
    /\ "s1" \notin downTracks
    /\ wrClosed = 1
    /\ wrAddRes = "ErrReceiverClosed"

\* C20: GetRedReceiver and GetPrimaryReceiverForRed install at most one
\* wrapper: a slot that holds a wrapper keeps it, every caller that gets a
\* wrapper gets the one in the slot, and a call on a receiver that is closed
\* or for which the direction does not apply returns the receiver itself.
C20_Returned ==
    \A g \in Getters :
       getPc[g].at = "done" =>
          IF NotApplicable(getPc[g].kind)
          THEN getRes[g] = Self
          ELSE \/ getRes[g] = Self /\ rcvClosed
               \/ /\ wrapper[getPc[g].kind] # 0
                  /\ getRes[g] = Wrapper(wrapper[getPc[g].kind])

C20_Installed ==
    /\ \A k \in {"primary", "red"} : wrapper[k] # 0 => wrapper'[k] = wrapper[k]
    /\ \A g \in Getters :
          (getPc[g].at = "idle" /\ getPc'[g].at # "idle"
              /\ (rcvClosed \/ NotApplicable(getPc'[g].kind)))
          => getRes'[g] = Self /\ wrapper' = wrapper /\ instances' = instances

C20_OneWrapper == [](C20_Returned) /\ [][C20_Installed]_vars

\* two concurrent callers each created an instance and both got the same one
C20_Witness ==
    /\ instances = 2
    /\ \A g \in Getters : getPc[g].at = "done"
    /\ getRes["g1"] = getRes["g2"]
    /\ getRes["g1"].ret = "wrapper"

----------------------------------------------------------------------------
\* C21: AddUpTrack is idempotent per layer: a call for a layer that has an up
\* track leaves the track and the buffer stored and the tracker of the layer
\* as they were and starts no second forwarding loop for the layer.
C21_Idempotent ==
    [][\A l \in Layers :
          upTracks[l] # 0 =>
             /\ upTracks'[l] = upTracks[l]
             /\ buffers'[l] = buffers[l]
             /\ upTrackers'[l] = upTrackers[l]
             /\ fwdLoops'[l] = fwdLoops[l]]_vars

\* two calls for layer 0 on an open receiver: two forwarding loops run for it,
\* the first still reading the buffer that was replaced
C21_Witness ==
    /\ ~upClosed
    /\ upTrackers[0] = 2
    /\ fwdLoops[0] = <<1, 2>>
    /\ buffers[0] = 2

----------------------------------------------------------------------------
\* the DownTracks a slice holds
Elems(s) == {s[i] : i \in 1..Len(s)}

\* C22: after every Store, Free and ResetAndGetDownTracks the spreader holds
\* at most one DownTrack per subscriber, and the shadow slice holds exactly
\* the DownTracks of the map, each once; ResetAndGetDownTracks returns the
\* shadow it found and leaves the map and the shadow empty.
C22_MapAndShadow ==
    /\ \A d1, d2 \in dtsMap : d1.sub = d2.sub => d1 = d2
    /\ Elems(SliceOf(dtsShadow)) = dtsMap
    /\ Len(SliceOf(dtsShadow)) = Cardinality(dtsMap)

C22_Reset ==
    (dtsReturned' # dtsReturned \/ (dtsShadow # 0 /\ dtsShadow' = 0)) =>
        /\ dtsReturned' = SliceOf(dtsShadow)
        /\ dtsMap' = {}
        /\ dtsShadow' = 0

C22_Spreader == [](C22_MapAndShadow) /\ [][C22_Reset]_vars

\* three subscribers were reset away and three are stored again, s1 with its
\* second DownTrack
C22_Witness ==
    /\ Len(dtsReturned) = 3
    /\ [sub |-> "s1", id |-> 1] \in Elems(dtsReturned)
    /\ Cardinality(dtsMap) = 3
    /\ [sub |-> "s1", id |-> 2] \in dtsMap

\* C23: Broadcast calls the writer exactly once for each DownTrack of the
\* shadow it took at its start, run sequentially or in chunks of two on
\* concurrent workers, and the slice it iterates keeps that content while the
\* map is stored to and freed from.
C23_ExactlyOnce ==
    /\ \A d \in DownTrackSet :
          bcWritten[d] <= (IF d \in Elems(bcAtStart) THEN 1 ELSE 0)
    /\ bcPc = "idle" =>
          \A d \in DownTrackSet :
             bcWritten[d] = (IF d \in Elems(bcAtStart) THEN 1 ELSE 0)
    /\ bcPc # "idle" =>
          /\ bcSnap.len = Len(bcAtStart)
          /\ bcSnap.id # 0 => SliceOf(bcSnap.id) = bcAtStart

\* a parallel Broadcast over three DownTracks has returned after the map was
\* changed under it
C23_Witness ==
    /\ bcThreshold = 2
    /\ bcPc = "idle"
    /\ Len(bcAtStart) = 3
    /\ \A d \in Elems(bcAtStart) : bcWritten[d] = 1
    /\ Elems(bcAtStart) # dtsMap
    /\ bcStart > 4

----------------------------------------------------------------------------
\* C24: with a valid current layer, Select moves the current temporal layer
\* up only on a packet with U and B set whose temporal layer is above the
\* current one and at most the target's, to that packet's temporal layer, and
\* down only on a packet with E set, to the target's temporal layer; any
\* other packet leaves it as it was.
C24_Temporal ==
    [][(selCalls' # selCalls /\ IsValid(currentLayer)) =>
          /\ currentLayer'.temporal > currentLayer.temporal =>
                /\ extPkt'.U /\ extPkt'.B
                /\ extPkt'.layer.temporal > currentLayer.temporal
                /\ extPkt'.layer.temporal <= targetLayer.temporal
                /\ currentLayer'.temporal = extPkt'.layer.temporal
          /\ currentLayer'.temporal < currentLayer.temporal =>
                /\ extPkt'.E
                /\ currentLayer'.temporal = targetLayer.temporal]_vars

\* current {0,0}, target {1,2}: the packet {0,1} with U and B moved the
\* temporal layer to 1
C24_Witness ==
    /\ selCalls = 1
    /\ prevLayer = [spatial |-> 0, temporal |-> 0]
    /\ targetLayer = [spatial |-> 1, temporal |-> 2]
    /\ extPkt.layer = [spatial |-> 0, temporal |-> 1]
    /\ extPkt.U /\ extPkt.B
    /\ currentLayer = [spatial |-> 0, temporal |-> 1]

\* C25: with a valid current layer, Select moves the current spatial layer up
\* only on a packet with P unset and B set whose spatial layer is above the
\* current one, to that packet's spatial layer, and down only on a packet
\* with E set, to the target's spatial layer; any other packet leaves it as
\* it was.
C25_Spatial ==
    [][(selCalls' # selCalls /\ IsValid(currentLayer)) =>
          /\ currentLayer'.spatial > currentLayer.spatial =>
                /\ ~extPkt'.P /\ extPkt'.B
                /\ extPkt'.layer.spatial > currentLayer.spatial
                /\ currentLayer'.spatial = extPkt'.layer.spatial
          /\ currentLayer'.spatial < currentLayer.spatial =>
                /\ extPkt'.E
                /\ currentLayer'.spatial = targetLayer.spatial]_vars

\* current {0,1}, target {1,2}: the packet {1,0} with B and without P moved
\* the spatial layer to 1
C25_Witness ==
    /\ selCalls = 1
    /\ prevLayer = [spatial |-> 0, temporal |-> 1]
    /\ targetLayer = [spatial |-> 1, temporal |-> 2]
    /\ extPkt.layer = [spatial |-> 1, temporal |-> 0]
    /\ ~extPkt.P /\ extPkt.B
    /\ currentLayer.spatial = 1

C27_Marker ==
    [][(selCalls' # selCalls /\ IsValid(currentLayer) /\ result'.IsRelevant) =>
          result'.RTPMarker =
             \/ currentLayer'.spatial < currentLayer.spatial
             \/ extPkt'.E /\ extPkt'.layer.spatial = currentLayer.spatial
             \/ extPkt'.marker]_vars

\* current {2,0}, target {0,0}: the end-of-picture packet of spatial layer 0
\* brings the downgrade, is selected, and keeps its marker bit of 0
C27_Witness ==
    /\ selCalls = 1
    /\ prevLayer = [spatial |-> 2, temporal |-> 0]
    /\ targetLayer = [spatial |-> 0, temporal |-> 0]
    /\ currentLayer = [spatial |-> 0, temporal |-> 0]
    /\ extPkt.E /\ extPkt.layer.spatial = 0 /\ ~extPkt.marker
    /\ result.IsSelected
    /\ ~result.RTPMarker

----------------------------------------------------------------------------
\* C28: availableLayers is at all times strictly ascending, so without
\* duplicates, and holds exactly the layers whose tracker reported Active last
\* since the last RemoveAllTrackers; adding a layer that is present or
\* removing one that is absent leaves it as it was.
C28_SortedSet ==
    /\ \A i, j \in 1..Len(availableLayers) :
          i < j => availableLayers[i] < availableLayers[j]
    /\ Elems(availableLayers) = {l \in StmLayers : lastStatus[l] = "active"}

C28_NoChange ==
    ({l \in StmLayers : lastStatus'[l] = "active"}
        = {l \in StmLayers : lastStatus[l] = "active"})
    => availableLayers' = availableLayers

C28_Available == [](C28_SortedSet) /\ [][C28_NoChange]_vars

\* layers reported out of order, one of them stopped again
C28_Witness ==
    /\ availableLayers = <<0, 2>>
    /\ lastStatus = [l \in StmLayers |-> IF l = 1 THEN "stopped" ELSE "active"]
    /\ maxAvailNotified = 2


\* what the tracker of layer k puts into column t: its bitrate if it is
\* there and its layer is available
C29_Contribution(k, t) ==
    IF trackers[k] /\ HasSpatialLayer(availableLayers, k) THEN trackerBr[k][t] ELSE 0

RECURSIVE C29_Sum(_, _)
C29_Sum(s, t) == IF s < 0 THEN 0 ELSE C29_Contribution(s, t) + C29_Sum(s - 1, t)

\* C29 as stated: for an SVC codec every entry of the matrix GetLayeredBitrate
\* returns is at least the entry below it in the same temporal column
C29_Original ==
    (stmCalled = "GetLayeredBitrate" /\ isSVC)
    => \A s \in StmLayers \ {0}, t \in BrTemporals :
          layeredOut.br[s][t] >= layeredOut.br[s - 1][t]

\* C29: for an SVC codec an entry of a row s >= 1 whose own layer has a
\* nonzero bitrate is that bitrate plus those of all the rows below, and so at
\* least the entry below it; an entry whose own layer has none stays 0
C29_Cumulative ==
    (stmCalled = "GetLayeredBitrate" /\ isSVC)
    => \A s \in StmLayers \ {0}, t \in BrTemporals :
          IF C29_Contribution(s, t) # 0
          THEN /\ layeredOut.br[s][t] = C29_Sum(s, t)
               /\ layeredOut.br[s][t] >= layeredOut.br[s - 1][t]
          ELSE layeredOut.br[s][t] = 0

C29_Witness ==
    /\ stmCalled = "GetLayeredBitrate"
    /\ isSVC
    /\ layeredOut.al = <<0, 2>>
    /\ trackers[1]
    /\ layeredOut.br[0][0] = 1
    /\ layeredOut.br[1][0] = 0
    /\ layeredOut.br[2][0] = 2

\* the highest available layer: the highest measured one, or a higher layer
\* a tracker has declared, at the highest temporal layer seen
C30_MaxAvailable ==
    LET brs == LayeredBitrate
        measured == {l \in ValidLayers : l.spatial \in StmLayers /\ l.temporal \in BrTemporals
                                          /\ brs[l.spatial][l.temporal] # 0}
        top == IF measured = {} THEN InvalidLayer
               ELSE CHOOSE l \in measured : \A o \in measured :
                       \/ o.spatial < l.spatial
                       \/ (o.spatial = l.spatial /\ o.temporal <= l.temporal)
    IN  IF MaxOf(availableLayers) > top.spatial
        THEN [spatial |-> MaxOf(availableLayers), temporal |-> maxTemporalLayerSeen]
        ELSE top

\* the distance of the formula, as numerator and denominator
C30_Formula ==
    LET m == IF availableLayers = <<>> THEN [spatial |-> 0, temporal |-> 0]
             ELSE C30_MaxAvailable
    IN  [num |-> (maxExpectedLayer - m.spatial) * (maxTemporalLayerSeen + 1)
                    + (maxTemporalLayerSeen - m.temporal)
                    + (IF availableLayers = <<>> THEN 1 ELSE 0),
         den |-> maxTemporalLayerSeen + 1]

C30_Equal(a, b) == a.num * b.den = b.num * a.den

\* C30 as stated: wherever the quotient is defined, DistanceToDesired returns
\* the formula's value, one more in the numerator when no layer is available
C30_Original ==
    (stmCalled = "DistanceToDesired" /\ maxTemporalLayerSeen + 1 # 0)
    => C30_Equal(distanceOut, C30_Formula)

\* C30: DistanceToDesired returns 0 when the track is paused, no layer is
\* expected or no temporal layer has been seen, and the formula's value
\* otherwise, one more in the numerator when no layer is available
C30_Distance ==
    stmCalled = "DistanceToDesired"
    => IF paused \/ maxExpectedLayer < 0 \/ maxTemporalLayerSeen < 0
       THEN distanceOut.num = 0 /\ distanceOut.den # 0
       ELSE distanceOut.den # 0 /\ C30_Equal(distanceOut, C30_Formula)

C30_Witness ==
    /\ stmCalled = "DistanceToDesired"
    /\ ~paused
    /\ maxExpectedLayer = 2
    /\ maxTemporalLayerSeen = 1
    /\ availableLayers = <<>>
    /\ distanceOut = [num |-> 6, den |-> 2]


\* ts + (RTP_ref - (RTP_layer + (NTP_ref - NTP_layer) * clockRate)) modulo 2^32
C31_Formula(ts, a, b) ==
    Plus32(ts, Sub32(b.rtp,
                     Plus32(a.rtp, ToU32(((b.ntp - a.ntp) * clockRate) \div NtpUnitsPerSecond))))

C31_Answer(unavailable) ==
    refOut # NoAnswer
    => IF refOut.layer \in unavailable \/ refOut.ref \in unavailable
       THEN refOut.err # "none"
       ELSE /\ refOut.err = "none"
            /\ refOut.ts = C31_Formula(refOut.asked, senderReports[refOut.layer],
                                       senderReports[refOut.ref])
            /\ refOut.layer = refOut.ref => refOut.ts = refOut.asked

\* C31 as stated: GetReferenceLayerRTPTimestamp returns an error when one of
\* the two layers never delivered a sender report, and the mapped timestamp
\* otherwise
C31_Original == C31_Answer(SrLayers \ srDelivered)

\* C31: GetReferenceLayerRTPTimestamp returns an error when one of the two
\* layers never delivered a sender report or its latest report has the NTP
\* timestamp 0, and otherwise ts + (RTP_ref - (RTP_layer + (NTP_ref -
\* NTP_layer) * clockRate)) modulo 2^32, which is ts when layer equals ref
C31_Reference ==
    C31_Answer({l \in SrLayers : l \notin srDelivered \/ senderReports[l].ntp = 0})

C31_Witness ==
    /\ senderReports[0] = [ntp |-> 10000, rtp |-> <<1, 34464>>]
    /\ senderReports[1] = [ntp |-> 10001, rtp |-> <<1, 44464>>]
    /\ refOut = [asked |-> <<1, 39464>>, layer |-> 0, ref |-> 1, err |-> "none",
                 ts |-> <<1, 40464>>]


C32_Ascending(notes, cur) ==
    /\ \A i, j \in 1..Len(notes) : i < j => notes[i] < notes[j]
    /\ cur = IF notes = <<>> THEN -1 ELSE notes[Len(notes)]

C32_Maxima ==
    /\ \A l \in StmLayers : trackers[l] => l <= maxPublishedLayer
    /\ C32_Ascending(pubNotes, maxPublishedLayer)
    /\ C32_Ascending(tempNotes, maxTemporalLayerSeen)

C32_Step ==
    /\ maxPublishedLayer' >= maxPublishedLayer
    /\ maxTemporalLayerSeen' >= maxTemporalLayerSeen
    /\ pubNotes' # pubNotes =>
          maxPublishedLayer' > maxPublishedLayer /\ pubNotes' = Append(pubNotes, maxPublishedLayer')
    /\ tempNotes' # tempNotes =>
          /\ maxTemporalLayerSeen' > maxTemporalLayerSeen
          /\ tempNotes' = Append(tempNotes, maxTemporalLayerSeen')

\* C32: maxPublishedLayer is at least every layer a tracker was added for,
\* neither it nor maxTemporalLayerSeen ever decreases, whatever is removed or
\* stopped, and the listener is given a value only in a step that raised it
C32_NeverDecrease == [](C32_Maxima) /\ [][C32_Step]_vars

C32_Witness ==
    /\ \A l \in StmLayers : ~trackers[l]
    /\ availableLayers = <<>>
    /\ maxPublishedLayer = 2
    /\ maxTemporalLayerSeen = 1
    /\ pubNotes = <<1, 2>>
    /\ tempNotes = <<0, 1>>


C33_OneWriter ==
    /\ writers <= 1
    /\ writing <=> writers = 1
    /\ (writers = 0 /\ streamErr = "nil") => (queue = <<>> /\ ~draining)

C33_Settled(k) == accepted >= k ~> (seq >= k \/ streamErr # "nil")

\* C33: at most one write() runs for a sink; while none runs and the stream is
\* open the queue is empty and no Close() is pending; and every accepted
\* message is in the end sent or discarded (counted in seq), or the stream has
\* ended
C33_SingleWriter == [](C33_OneWriter) /\ \A k \in 1..MaxMsgs : C33_Settled(k)

\* the writer gave up and discarded both messages; the stream stays open with
\* no writer and nothing queued
C33_Witness ==
    /\ writers = 0
    /\ lastExit.how = "giveup"
    /\ streamErr = "nil"
    /\ seq = MaxMsgs
    /\ emitted = <<>>


\* C34: what the reader has emitted is at all times the first messages
\* accepted, in order and without a gap; a frame that starts beyond the
\* reader's counter, as after a give-up, yields the error and no message
C34_Prefix ==
    /\ [](/\ Len(emitted) <= accepted
          /\ \A i \in DOMAIN emitted : emitted[i] = i)
    /\ [][(CopyStep /\ rseq < Head(chan).seq) => (rpc' = "dropped" /\ emitted' = emitted)]_vars

\* message 1 was discarded by a give-up, the stream stayed open, message 2 was
\* sent by a second writer and the reader refused its frame
C34_Witness ==
    /\ ~CloseOnFailure
    /\ streamErr = "nil"
    /\ accepted = 2
    /\ seq = 2
    /\ lastExit.how = "drained"
    /\ rpc = "dropped"
    /\ emitted = <<>>


C35_Refused ==
    (draining \/ streamErr # "nil")
    => /\ accepted' = accepted
       /\ Len(queue') <= Len(queue)
       /\ \A i \in DOMAIN queue' : \E j \in DOMAIN queue : queue'[i] = queue[j]
       /\ wmRes' # wmRes =>
             wmRes' = IF streamErr # "nil" THEN streamErr ELSE "ErrStreamClosed"

\* C35: once Close() has been called or the stream has ended, WriteMessage
\* returns the stream's error or ErrStreamClosed and the queue takes no
\* message; so a reader that has taken the close frame has emitted every
\* message ever accepted
C35_Closed ==
    /\ [][C35_Refused]_vars
    /\ [](rpc = "closed" => (draining /\ Len(emitted) = accepted))

\* a message offered after Close() was refused while the first was still queued
C35_Witness ==
    /\ draining
    /\ streamErr = "nil"
    /\ wmRes = "ErrStreamClosed"
    /\ accepted = 1
    /\ queue = <<1>>


\* C36 as stated: once the close sequence has completed and no AddDownTrack
\* is under way, the spreader of the receiver holds no DownTrack
C36_NoneLeft ==
    (closeOnce = "done" /\ \A s \in Subs : addPc[s] = "idle") => downTracks = {}

\* an AddDownTrack that passed the closed check before the close sequence
\* stored its DownTrack after the spreader was reset: accepted, registered,
\* never closed
C36_Witness ==
    /\ closeOnce = "done"
    /\ \A s \in Subs : addPc[s] = "idle"
    /\ "s1" \in downTracks
    /\ addRes["s1"] = "nil"
    /\ dtClosed["s1"] = 0
    /\ closeList = {}


C37_Quiet ==
    /\ mpRun = DOMAIN pubNotes
    /\ \A s \in Subs : mpPc[s] # "store"

\* C37 as stated: once no AddDownTrack is under way and every notification
\* has been delivered, each DownTrack the spreader holds was last told the
\* manager's current maxPublishedLayer
C37_NotStale ==
    C37_Quiet => \A s \in mpTracks : dtLayer[s] = maxPublishedLayer

\* a DownTrack was told -1, the tracker of layer 0 was added and its
\* notification ran over an empty spreader, then the DownTrack was stored
C37_Witness ==
    /\ C37_Quiet
    /\ maxPublishedLayer = 0
    /\ pubNotes = <<0>>
    /\ mpTracks = {"s1"}
    /\ dtLayer["s1"] = -1


\* the layers that may count as current for the packet of the last Select:
\* the one Select found, the one it compared the packet with, the one it left
C38_InForce == {prevLayer, LocalLayer(prevLayer, targetLayer, extPkt), currentLayer}

\* C38 as stated: a selected packet is neither above the current spatial
\* layer nor above the current temporal layer
C38_Original ==
    (selCalls = 1 /\ result.IsSelected)
    => \E c \in C38_InForce :
          extPkt.layer.spatial <= c.spatial /\ extPkt.layer.temporal <= c.temporal

\* a packet of a lower spatial layer and a higher temporal layer was selected
C38_Witness ==
    /\ selCalls = 1
    /\ prevLayer = [spatial |-> 1, temporal |-> 0]
    /\ targetLayer = [spatial |-> 1, temporal |-> 0]
    /\ currentLayer = [spatial |-> 1, temporal |-> 0]
    /\ extPkt.layer = [spatial |-> 0, temporal |-> 2]
    /\ result.IsSelected


----------------------------------------------------------------------------
(***************************************************************************)
(* RED block headers and the RED history                                   *)
(***************************************************************************)

\* the redundancy encoded in the last RED packet: what was collected, or
\* nothing when it did not fit the buffer
C39_Encoded == IF Len(redOut.hdrs) = 0 THEN <<>> ELSE redOut.redPkts

\* C39: in every RED packet produced, the block-length field of each
\* redundancy header is the length of its block and the timestamp-offset
\* field is the primary's timestamp minus the block's
C39_Fields ==
    redOut.sent
    => \A i \in 1..Len(redOut.hdrs) :
          /\ redOut.hdrs[i].blen = C39_Encoded[i].len
          /\ <<0, redOut.hdrs[i].tsOff>> = Sub32(redOut.pkt.ts, C39_Encoded[i].ts)

\* a RED packet was sent with a redundancy block of more than 1023 bytes
C39_Witness ==
    /\ redOut.sent
    /\ \E i \in 1..Len(redOut.hdrs) :
          /\ C39_Encoded[i].len >= 1024
          /\ redOut.hdrs[i].blen < C39_Encoded[i].len

\* the non-empty entries of a history
C40_Stored(buf) == SelectSeq(buf, LAMBDA e : e # NoPkt)

\* C40: the non-empty entries of the RED history are in strictly increasing
\* sequence-number order (mod 2^16), none stored twice, and no RED packet
\* carries the same packet twice as redundancy
C40_Increasing ==
    /\ \A i, j \in 1..Len(C40_Stored(pktBuff)) :
          i < j => LET d == Sub16(C40_Stored(pktBuff)[j].sn, C40_Stored(pktBuff)[i].sn)
                   IN  d > 0 /\ d < 32768
    /\ redOut.sent
       => \A i, j \in 1..Len(redOut.redPkts) :
             i < j => redOut.redPkts[i].sn # redOut.redPkts[j].sn

\* a packet was forwarded twice and a later RED packet carries it twice
C40_Witness ==
    /\ redOut.sent
    /\ Len(redOut.redPkts) = 2
    /\ redOut.redPkts[1].sn = redOut.redPkts[2].sn
    /\ redOut.pkt.sn # redOut.redPkts[1].sn
    /\ Len(redOut.hdrs) = 2

============================================================================
